---- MODULE Spec2Model ----
(***************************************************************************)
(* Identity-document verification (KYC) pipeline.                          *)
(*                                                                         *)
(* Part 1 models one call of verify_driver_license                         *)
(* (src/agents/kyc/verify_service.py) together with the three LangChain    *)
(* helpers it calls (src/agents/kyc/langchain_client.py).  The OCR engine  *)
(* and the LLM backend are black boxes: each call nondeterministically     *)
(* raises or returns one of a family of JSON values, wrongly typed ones    *)
(* included.                                                               *)
(*                                                                         *)
(* Part 2 models the task pipeline of the design: the Document Evaluator   *)
(* and the Task Aggregator, fed by assess_document_authenticity            *)
(* (src/agents/kyc/genai_validator.py) and by the score combination of     *)
(* evaluate_user_data (src/agents/kyc/compare_utils.py).  The documents of *)
(* a task are evaluated independently and end in any order.                *)
(*                                                                         *)
(* Part 3 models one call of evaluate_user_data on the lines of a          *)
(* document.                                                               *)
(*                                                                         *)
(* SpecVerify, SpecTask and SpecMatch are the three parts; SpecKyc is      *)
(* SpecVerify and SpecTask side by side.  SpecDates is _score_dates alone, *)
(* SpecTwice two calls of verify_driver_license on the same input,         *)
(* SpecEndpoint the handler of POST /kyc/verify around one call.           *)
(*                                                                         *)
(* Part 4 models what surrounds the pipeline: the workflow of              *)
(* BankBotOrchestrator (SpecWorkflow for one session, SpecSessions for two *)
(* on the shared instance), AdvisorAgent.run (SpecAdvisor) and the session *)
(* table of the gateway (SpecGateway).                                     *)
(*                                                                         *)
(* Conventions                                                             *)
(*  - A Python/JSON value is a record [t, s, n, l]: t is the type tag,     *)
(*    s the payload of a str, n the payload of a number, l the payload of  *)
(*    a list of str.  The tag "absent" stands for a key a dict lacks.      *)
(*  - Confidences are hundredths: 0.5 is 50, 0.6 is 60.  Match scores are  *)
(*    thousandths: 0.65 is 650.                                            *)
(*  - A function that can raise returns [exc, val]: exc is "none" or the   *)
(*    class of the exception; the try/except blocks of the source decide   *)
(*    what becomes of it.                                                  *)
(***************************************************************************)
EXTENDS Integers, Sequences, FiniteSets, TLC

VARIABLES
    pc,                      \* position inside verify_driver_license
    driver_license_image,    \* the parameter, reassigned at line 61
    temp_file,               \* "none" | "exists" | "deleted"
    ocr_text,                \* line 82
    extracted_fields,        \* line 108
    authenticity_result,     \* line 125
    field_comparison_result, \* line 133
    llm_log,                 \* what the LLM backend answered, call by call
    result,                  \* the returned dict
    raised,                  \* TRUE iff an exception left the function
    cancelled,               \* TRUE once the caller of the request has gone
    task_pc,                 \* "evaluating" | "done" | "idle"
    task_docs,               \* the documents of the request, in order
    task_log,                \* per document: what OCR, matcher and LLM gave
    per_document,            \* the DocumentVerdicts produced so far
    task_verdict,            \* the TaskVerdict
    match_args,              \* the arguments of evaluate_user_data
    comparison_result,       \* the ComparisonResult it returned
    date_args,               \* the arguments of _score_dates
    date_score,              \* what it returned, in thousandths
    ocr_result,              \* line 80 of verify_driver_license
    call_no,                 \* 1, 2: the first, the second call; 0: a call
    first,                   \* what the first of two calls was given and gave
    payload,                 \* the KYCVerifyRequest of POST /kyc/verify
    endpoint_pc,             \* "received" | "calling" | "answered" | "idle"
    kyc_response,            \* the KYCVerifyResponse
    use_llm,                 \* BankBotOrchestrator: self._use_llm and self.crew
    session_state,           \* BankBotOrchestrator._session_state, one per instance
    wf,                      \* per session: the thread that runs its workflow
    agent,                   \* an AdvisorAgent, the catalogue and the LLM it has
    advice,                  \* what AdvisorAgent.run returned
    table,                   \* the gateway: _SESSIONS, status and progress
    gw                       \* per session: its workflow thread and its poller

verify_vars == <<pc, driver_license_image, temp_file, ocr_text, extracted_fields,
                 authenticity_result, field_comparison_result, llm_log, result,
                 raised, cancelled>>

task_vars == <<task_pc, task_docs, task_log, per_document, task_verdict>>

match_vars == <<match_args, comparison_result>>

date_vars == <<date_args, date_score>>

twice_vars == <<call_no, first>>

\* What verify_driver_license does not touch
endpoint_vars == <<payload, endpoint_pc, kyc_response>>

orch_vars == <<use_llm, session_state, wf>>

advisor_vars == <<agent, advice>>

gateway_vars == <<table, gw>>

agents_vars == <<orch_vars, advisor_vars, gateway_vars>>

other_vars == <<date_vars, twice_vars, endpoint_vars, agents_vars>>

rest_vars == <<other_vars, ocr_result>>

vars == <<verify_vars, task_vars, match_vars, rest_vars>>

\* No call of _score_dates is under way.
NoDateArgs == [ocr_value |-> <<>>, expected |-> <<>>]

NotScored == 0 - 1

DatesIdle ==
    /\ date_args = NoDateArgs
    /\ date_score = NotScored

\* ocr_result before line 80
NoOcrResult == [assigned |-> FALSE, text |-> ""]


-----------------------------------------------------------------------------
(* Python values *)

Absent == [t |-> "absent", s |-> "", n |-> 0, l |-> <<>>]

PyNone == [t |-> "none", s |-> "", n |-> 0, l |-> <<>>]

PyStr(x) == [t |-> "str", s |-> x, n |-> 0, l |-> <<>>]

PyNum(k) == [t |-> "num", s |-> "", n |-> k, l |-> <<>>]

PyList(q) == [t |-> "list", s |-> "", n |-> 0, l |-> q]

\* dict.get(key, default)
Get(v, default) == IF v.t = "absent" THEN default ELSE v

\* float(x): numbers and numeric strings convert, everything else raises.
FloatOk(v) == v.t = "num" \/ (v.t = "str" /\ v.s = "0.9")

FloatOf(v) == IF v.t = "num" THEN v.n ELSE 90

\* bool(x) as used by "if authenticity_flags:"
Truthy(v) ==
    CASE v.t = "list" -> Len(v.l) > 0
      [] v.t = "str"  -> v.s # ""
      [] v.t = "num"  -> v.n # 0
      [] OTHER        -> FALSE

\* x.strip() exists only on str
IsStr(v) == v.t = "str"

-----------------------------------------------------------------------------
(* What the LLM backend can answer.  chain.invoke (prompt | llm | parser)   *)
(* either raises (backend unreachable, output that is no JSON) or returns   *)
(* the parsed JSON value: a dict, a str, or another non-dict value.  The    *)
(* kind "silent" is the backend that accepts the request and never answers. *)

\* A str answer is a sequence of tokens:  "{" and "}" are braces, "m" is a
\* well-formed list of members, "p" is prose, "f" is a ``` code fence.
Tokens == {"{", "}", "m", "p", "f"}

MaxTok == 3

StrAnswers == UNION {[1..k -> Tokens] : k \in 0..MaxTok}

\* re.sub(r'```json\s*', ''), re.sub(r'```\s*', ''): the fences go.
Cleaned(toks) == SelectSeq(toks, LAMBDA c : c # "f")

FirstOpen(q) == CHOOSE i \in 1..Len(q) : q[i] = "{" /\ \A j \in 1..(i-1) : q[j] # "{"

LastClose(q) == CHOOSE i \in 1..Len(q) : q[i] = "}" /\ \A j \in (i+1)..Len(q) : q[j] # "}"

\* re.search(r'\{.*\}', cleaned, re.DOTALL): greedy, first "{" to last "}".
JsonMatch(q) ==
    IF /\ \E i \in 1..Len(q) : q[i] = "{"
       /\ \E i \in 1..Len(q) : q[i] = "}"
       /\ FirstOpen(q) < LastClose(q)
    THEN [found |-> TRUE, text |-> SubSeq(q, FirstOpen(q), LastClose(q))]
    ELSE [found |-> FALSE, text |-> <<>>]

\* json.loads on the matched text: only "{}" and "{members}" are JSON.
JsonLoadsOk(text) == text = <<"{", "}">> \/ text = <<"{", "m", "}">>

\* Lines 156-173 and 407-424: "ok" (a dict was recovered), "nojson" or
\* "badjson" (ValueError raised).  empty: the recovered dict is {}.
ParseStrAnswer(toks) ==
    LET m == JsonMatch(Cleaned(toks)) IN
    IF ~m.found THEN [kind |-> "str_nojson", empty |-> FALSE]
    ELSE IF ~JsonLoadsOk(m.text) THEN [kind |-> "str_badjson", empty |-> FALSE]
    ELSE [kind |-> "str_json", empty |-> (m.text = <<"{", "}">>)]

(* Authenticity answers *)
AuthStatusVals ==
    {Absent, PyStr("verified"), PyStr("manual_review"), PyStr("rejected"),
     PyStr("approved")}

AuthConfVals == {Absent, PyNum(49), PyNum(50), PyStr("high")}

AuthFlagVals ==
    {Absent, PyList(<<"llm_evaluation_failed">>), PyList(<<"blurry_text">>), PyNum(3)}

AuthAnswers ==
    {[kind |-> k, status |-> Absent, confidence |-> Absent, flags |-> Absent] :
        k \in {"raise", "nondict", "silent"}}
    \cup
    {[kind |-> "dict", status |-> st, confidence |-> c, flags |-> f] :
        st \in AuthStatusVals, c \in AuthConfVals, f \in AuthFlagVals}

(* Field-comparison answers.  One field of the answer: the key is absent,   *)
(* or holds null, or holds a dict with a status and a confidence.           *)
FieldAbsent == [t |-> "absent", status |-> Absent, confidence |-> Absent]

FieldNone == [t |-> "none", status |-> Absent, confidence |-> Absent]

FieldDict(st, c) == [t |-> "dict", status |-> st, confidence |-> c]

FieldVals ==
    {FieldAbsent, FieldNone,
     FieldDict(PyStr("match"), PyNum(90)),
     FieldDict(PyStr("mismatch"), PyNum(90)),
     FieldDict(PyStr("not_found"), Absent),
     FieldDict(PyStr("uncertain"), PyNum(59)),
     FieldDict(PyStr("uncertain"), PyNum(60)),
     FieldDict(PyStr("uncertain"), PyStr("high")),
     FieldDict(PyStr("partial"), PyNum(90))}

\* The members a str answer carries when its JSON can be recovered.
StrMembers ==
    [name_match |-> FieldDict(PyStr("match"), PyNum(90)),
     address_match |-> FieldDict(PyStr("match"), PyNum(90)),
     dob_match |-> FieldDict(PyStr("match"), PyNum(90))]

NoMembers == [name_match |-> FieldAbsent, address_match |-> FieldAbsent,
              dob_match |-> FieldAbsent]

CmpAnswers ==
    {[kind |-> "dict", toks |-> <<>>, name_match |-> a, address_match |-> b,
      dob_match |-> c] : a \in FieldVals, b \in FieldVals, c \in FieldVals}
    \cup
    {[kind |-> k, toks |-> <<>>, name_match |-> FieldAbsent,
      address_match |-> FieldAbsent, dob_match |-> FieldAbsent] :
        k \in {"raise", "nondict", "silent"}}
    \cup
    {[kind |-> "str", toks |-> t, name_match |-> StrMembers.name_match,
      address_match |-> StrMembers.address_match,
      dob_match |-> StrMembers.dob_match] : t \in StrAnswers}

(* Field-extraction answers *)
ExtractAnswers ==
    {[kind |-> k, toks |-> <<>>, name |-> Absent, address |-> Absent,
      date_of_birth |-> Absent] : k \in {"raise", "nondict", "silent"}}
    \cup
    {[kind |-> "dict", toks |-> <<>>, name |-> n, address |-> PyStr("1 ANYWHERE ST"),
      date_of_birth |-> d] :
        n \in {PyStr(" JANE SAMPLE "), PyNone}, d \in {PyStr("1988-08-15"), Absent}}
    \cup
    {[kind |-> "str", toks |-> t, name |-> PyStr("JANE SAMPLE"),
      address |-> PyStr("1 ANYWHERE ST"), date_of_birth |-> PyStr("1988-08-15")] :
        t \in StrAnswers}

\* What the log keeps of an answer: a str answer is logged by how its JSON
\* recovery went, and without its text.
LogKind(ans) == IF ans.kind = "str" THEN ParseStrAnswer(ans.toks).kind ELSE ans.kind

-----------------------------------------------------------------------------
(* src/agents/kyc/langchain_client.py                                       *)
(* A function body yields [exc, val]: exc is "none" or the class of the    *)
(* exception raised; the except clauses decide which classes are caught.   *)

Ok(v) == [exc |-> "none", val |-> v]

Raise(e, filler) == [exc |-> e, val |-> filler]

\* str.strip()
Strip(x) == IF x = " JANE SAMPLE " THEN "JANE SAMPLE" ELSE x

EmptyFields == [name |-> "", address |-> "", date_of_birth |-> ""]

\* ChatOllama(model=..., base_url=..., temperature=...), lines 134-138,
\* 308-312 and 382-386: no timeout is given, and none to chain.invoke.
ChatOllamaHasTimeout == FALSE

\* chain.invoke on a backend that never answers: with a timeout the call
\* raises, without one it does not come back.
Hangs(ans) == ans.kind = "silent" /\ ~ChatOllamaHasTimeout

\* Lines 148-177 and 396-428: the exception raised before the answer is
\* known to be a dict, "none" if it is one.
ResponseError(ans) ==
    CASE ans.kind = "raise"   -> "ConnectionError"
      [] ans.kind = "silent"  -> "TimeoutError"
      [] ans.kind = "nondict" -> "ValueError"
      [] ans.kind = "str"     ->
            IF ParseStrAnswer(ans.toks).kind = "str_json" THEN "none" ELSE "ValueError"
      [] OTHER                -> "none"

\* The recovered dict of a str answer "{}" has no keys.
EmptyDict(ans) == ans.kind = "str" /\ ParseStrAnswer(ans.toks).empty

\* The dict extract_fields_from_ocr works on (line 155 or 167).
ExtractMembers(ans) ==
    IF ResponseError(ans) # "none" \/ EmptyDict(ans)
    THEN [name |-> Absent, address |-> Absent, date_of_birth |-> Absent]
    ELSE [name |-> ans.name, address |-> ans.address,
          date_of_birth |-> ans.date_of_birth]

\* Body of extract_fields_from_ocr, lines 127-184.
ExtractBody(ans) ==
    IF ResponseError(ans) # "none" THEN Raise(ResponseError(ans), EmptyFields)
    ELSE LET n == ExtractMembers(ans).name
             a == ExtractMembers(ans).address
             d == ExtractMembers(ans).date_of_birth
         IN IF \E v \in {n, a, d} : ~IsStr(Get(v, PyStr("")))
            THEN Raise("AttributeError", EmptyFields)  \* .strip() on a non-str
            ELSE Ok([name |-> Strip(Get(n, PyStr("")).s),
                     address |-> Strip(Get(a, PyStr("")).s),
                     date_of_birth |-> Strip(Get(d, PyStr("")).s)])

\* The clause of line 193 lost
ExtractExceptJSONDecodeErrorOnly(e) == e = "JSONDecodeError"

\* except json.JSONDecodeError / except Exception, lines 186 and 193
ExtractExcept(e) == e # "none"

\* extract_fields_from_ocr, lines 112-199
extract_fields_from_ocr(ans) ==
    LET b == ExtractBody(ans) IN
    IF b.exc = "none" THEN b
    ELSE IF ExtractExcept(b.exc) THEN Ok(EmptyFields)
    ELSE b

\* The except block returning no flag
AuthenticitySentinelNoFlag ==
    [status |-> PyStr("manual_review"), confidence |-> 0, flags |-> PyList(<<>>)]

\* The value of the except block, lines 345-351.
AuthenticitySentinel ==
    [status |-> PyStr("manual_review"), confidence |-> 0,
     flags |-> PyList(<<"llm_evaluation_failed">>)]

\* Body of assess_document_authenticity_with_langchain, lines 301-341.
\* A str answer is no dict either (line 332): no JSON recovery here.
AuthenticityBody(ans) ==
    IF ans.kind = "raise" THEN Raise("ConnectionError", AuthenticitySentinel)
    ELSE IF ans.kind = "silent" THEN Raise("TimeoutError", AuthenticitySentinel)
    ELSE IF ans.kind # "dict" THEN Raise("ValueError", AuthenticitySentinel)
    ELSE IF ~FloatOk(Get(ans.confidence, PyNum(0)))
         THEN Raise("ValueError", AuthenticitySentinel)     \* float("high")
    ELSE Ok([status |-> Get(ans.status, PyStr("manual_review")),
             confidence |-> FloatOf(Get(ans.confidence, PyNum(0))),
             flags |-> Get(ans.flags, PyList(<<>>))])

\* except Exception, line 343
AuthenticityExcept(e) == e # "none"

\* assess_document_authenticity_with_langchain, lines 282-351
assess_document_authenticity_with_langchain(ans) ==
    LET b == AuthenticityBody(ans) IN
    IF b.exc = "none" THEN b
    ELSE IF AuthenticityExcept(b.exc) THEN Ok(AuthenticitySentinel)
    ELSE b

\* One field of the value of the except blocks, lines 440-485.
UncertainField == FieldDict(PyStr("uncertain"), PyNum(0))

CompareSentinel ==
    [name_match |-> UncertainField, address_match |-> UncertainField,
     dob_match |-> UncertainField]

\* response.get(key, {}), lines 432-434
FieldOrEmpty(f) == IF f.t = "absent" THEN FieldDict(Absent, Absent) ELSE f

\* The dict compare_fields_with_langchain works on (line 406 or 418).
ResponseMembers(ans) ==
    IF ResponseError(ans) # "none" \/ EmptyDict(ans)
    THEN NoMembers
    ELSE [name_match |-> ans.name_match, address_match |-> ans.address_match,
          dob_match |-> ans.dob_match]

\* Body of compare_fields_with_langchain, lines 375-438.
CompareBody(ans) ==
    IF ResponseError(ans) # "none" THEN Raise(ResponseError(ans), CompareSentinel)
    ELSE LET response == ResponseMembers(ans)
         IN Ok([name_match |-> FieldOrEmpty(response.name_match),
                address_match |-> FieldOrEmpty(response.address_match),
                dob_match |-> FieldOrEmpty(response.dob_match)])

\* The second except clause lost
CompareExceptJSONDecodeErrorOnly(e) == e = "JSONDecodeError"

\* except json.JSONDecodeError / except Exception, lines 440 and 463
CompareExcept(e) == e # "none"

\* compare_fields_with_langchain, lines 354-485
compare_fields_with_langchain(ans) ==
    LET b == CompareBody(ans) IN
    IF b.exc = "none" THEN b
    ELSE IF CompareExcept(b.exc) THEN Ok(CompareSentinel)
    ELSE b

-----------------------------------------------------------------------------
(* src/agents/kyc/verify_service.py *)

AuthConfidenceMin == 50      \* line 154: authenticity_confidence < 0.5

FieldConfidenceMin == 60     \* lines 180, 193, 206: confidence < 0.6

\* The rejected branch of line 150 lost
AuthenticityFailsOnLowConfidenceOnly(ar) ==
    ar.status = PyStr("manual_review") /\ ar.confidence < 50

\* Lines 150-156: the verdict of the authenticity status and confidence.
AuthenticityFails(ar) ==
    \/ ar.status = PyStr("rejected")
    \/ ar.status = PyStr("manual_review") /\ ar.confidence < AuthConfidenceMin

\* The appends of lines 152 and 155 lost
AuthenticityReasonsNone(ar) == <<>>

AuthenticityReasons(ar) ==
    IF ar.status = PyStr("rejected")
    THEN <<"Document authenticity check failed">>
    ELSE IF ar.status = PyStr("manual_review") /\ ar.confidence < AuthConfidenceMin
    THEN <<"Low authenticity confidence">>
    ELSE <<>>

\* Lines 157-160: one reason per flag, llm_evaluation_failed left out.
\* A truthy flags value that is no list (a number) cannot be iterated.
FlagsRaise(flags) == Truthy(flags) /\ flags.t # "list"

RECURSIVE FlagReasons(_)
FlagReasons(q) ==
    IF q = <<>> THEN <<>>
    ELSE (IF Head(q) # "llm_evaluation_failed"
          THEN <<"Authenticity flag: " \o Head(q)>> ELSE <<>>)
         \o FlagReasons(Tail(q))

\* Lines 163-169: .get on each field of the comparison; null has no .get.
\* .get("status", "match") in place of .get("status", "uncertain")
FieldStatusDefaultMatch(fm) == Get(fm.status, PyStr("match"))

FieldStatus(fm) == Get(fm.status, PyStr("uncertain"))

FieldConfidence(fm) == Get(fm.confidence, PyNum(0))

\* Lines 171-182 (name), 184-195 (address), 197-208 (dob).
\* "confidence < 0.6" raises TypeError unless confidence is a number.
FieldRaises(fm) ==
    FieldStatus(fm) = PyStr("uncertain") /\ FieldConfidence(fm).t # "num"

\* The not_found and uncertain branches of lines 175-182 lost
FieldFailsOnMismatchOnly(fm) == FieldStatus(fm) = PyStr("mismatch")

FieldFails(fm) ==
    \/ FieldStatus(fm) = PyStr("mismatch")
    \/ FieldStatus(fm) = PyStr("not_found")
    \/ /\ FieldStatus(fm) = PyStr("uncertain")
       /\ FieldConfidence(fm).t = "num"
       /\ FieldConfidence(fm).n < FieldConfidenceMin

FieldReasons(fm, label) ==
    CASE FieldStatus(fm) = PyStr("mismatch")  -> <<label \o " mismatch">>
      [] FieldStatus(fm) = PyStr("not_found") -> <<label \o " not found in document">>
      [] FieldFails(fm)                       -> <<label \o " verification uncertain">>
      [] OTHER                                -> <<>>

NoDetails ==
    [present |-> FALSE,
     authenticity |-> [status |-> Absent, confidence |-> 0, flags |-> Absent],
     extracted_fields |-> EmptyFields,
     name |-> [status |-> Absent, confidence |-> Absent],
     address |-> [status |-> Absent, confidence |-> Absent],
     dob |-> [status |-> Absent, confidence |-> Absent]]

\* Lines 211-242
MatchDetails(ar, fr, ef) ==
    [present |-> TRUE,
     authenticity |-> ar,
     extracted_fields |-> ef,
     name |-> [status |-> FieldStatus(fr.name_match),
               confidence |-> FieldConfidence(fr.name_match)],
     address |-> [status |-> FieldStatus(fr.address_match),
                  confidence |-> FieldConfidence(fr.address_match)],
     dob |-> [status |-> FieldStatus(fr.dob_match),
              confidence |-> FieldConfidence(fr.dob_match)]]

ResultDict(v, reasons, details, text) ==
    [verified |-> v, failure_reasons |-> reasons, match_details |-> details,
     ocr_extracted_text |-> text]

NoResult == ResultDict(FALSE, <<>>, NoDetails, "")

\* failure_reasons as a list that outlives the call: the reasons of the
\* call before are still in it
AnalyseReasonsKept(ar, fr, ef, text) ==
    IF \/ FlagsRaise(ar.flags)
       \/ \E f \in {fr.name_match, fr.address_match, fr.dob_match} :
             f.t # "dict" \/ FieldRaises(f)
    THEN Raise("TypeError", NoResult)
    ELSE LET verified == /\ ~AuthenticityFails(ar)
                         /\ ~FieldFails(fr.name_match)
                         /\ ~FieldFails(fr.address_match)
                         /\ ~FieldFails(fr.dob_match)
             failure_reasons ==
                 first.result.failure_reasons
                 \o AuthenticityReasons(ar)
                 \o FlagReasons(IF Truthy(ar.flags) THEN ar.flags.l ELSE <<>>)
                 \o FieldReasons(fr.name_match, "Name")
                 \o FieldReasons(fr.address_match, "Address")
                 \o FieldReasons(fr.dob_match, "Date of birth")
         IN Ok(ResultDict(verified,
                          IF ~verified THEN failure_reasons ELSE <<>>,
                          MatchDetails(ar, fr, ef), text))

\* Lines 141-249: from the two assessments to the returned dict.
Analyse(ar, fr, ef, text) ==
    IF FlagsRaise(ar.flags) THEN Raise("TypeError", NoResult)
    ELSE IF \E f \in {fr.name_match, fr.address_match, fr.dob_match} : f.t # "dict"
         THEN Raise("AttributeError", NoResult)
    ELSE IF \E f \in {fr.name_match, fr.address_match, fr.dob_match} : FieldRaises(f)
         THEN Raise("TypeError", NoResult)
    ELSE LET verified == /\ ~AuthenticityFails(ar)
                         /\ ~FieldFails(fr.name_match)
                         /\ ~FieldFails(fr.address_match)
                         /\ ~FieldFails(fr.dob_match)
             failure_reasons ==
                 AuthenticityReasons(ar)
                 \o FlagReasons(IF Truthy(ar.flags) THEN ar.flags.l ELSE <<>>)
                 \o FieldReasons(fr.name_match, "Name")
                 \o FieldReasons(fr.address_match, "Address")
                 \o FieldReasons(fr.dob_match, "Date of birth")
         IN Ok(ResultDict(verified,
                          IF ~verified THEN failure_reasons ELSE <<>>,   \* line 246
                          MatchDetails(ar, fr, ef), text))

\* The parameter driver_license_image: plain base64, or a data URL (with or
\* without the comma that ends its prefix); the base64 text decodes or not.
Images == [form : {"plain", "dataurl", "dataurl_nocomma"}, b64 : {"ok", "bad"}]

\* Lines 58-63: the exception of the decoding, "none" if it succeeds.
DecodeError(img) ==
    IF img.form = "dataurl_nocomma" THEN "IndexError"      \* split(",", 1)[1]
    ELSE IF img.b64 = "bad" THEN "binascii.Error"
    ELSE "none"

DecodeExcept(e) == e # "none"          \* except Exception, line 64

OcrExcept(e) == e # "none"             \* except Exception, line 83

\* A narrower clause: except ValueError
VerifyExceptValueErrorOnly(e) == e = "ValueError"

VerifyExcept(e) == e # "none"          \* except Exception, line 251

\* Line 92 without its test: no text is ever taken for empty
OcrTextEmptyNever(text) == FALSE

\* Line 92: "if not ocr_text"
OcrTextEmpty(text) == text = ""

\* Lines 108-111: extract_fields_from_ocr is given the OCR text.
ExtractArgs(text) == text

\* Lines 125-130: the authenticity call is given the OCR text (and the
\* expected data), nothing of the extraction or the comparison.
AuthenticityArgs(text) == text

\* The comparison given no extracted field
CompareArgsNothingExtracted(ef) == EmptyFields

\* Lines 113-115 and 133-139: the comparison call is given the three
\* extracted fields.
CompareArgs(ef) == ef

\* extract_text (src/agents/kyc/ocr_utils.py): raises, or returns the text.
OcrOutcomes ==
    {[exc |-> "RuntimeError", text |-> ""], [exc |-> "none", text |-> ""],
     [exc |-> "none", text |-> "JANE SAMPLE 1988-08-15"]}

\* The TaskVerdict before the aggregation: no status, no documents.
NoTaskVerdict ==
    [status |-> Absent, match_score |-> [sum |-> 0, count |-> 0], flags |-> <<>>,
     per_document |-> <<>>]

\* No call of evaluate_user_data: no arguments, no result.
NoMatchArgs == [ocr_lines |-> <<>>, name_given |-> FALSE, dob_given |-> FALSE]

NoComparisonResult ==
    [present |-> FALSE, match_score |-> 0, name_score |-> 0, dob_score |-> 0]

\* Values of the locals before their assignment.
NoAssessment == [status |-> Absent, confidence |-> 0, flags |-> Absent]

NoComparison == NoMembers

NoAnswerLog ==
    [extract |-> [kind |-> "none", name |-> Absent, address |-> Absent,
                  date_of_birth |-> Absent],
     auth |-> [kind |-> "none", status |-> Absent, confidence |-> Absent,
               flags |-> Absent],
     cmp |-> [kind |-> "none", name_match |-> FieldAbsent,
              address_match |-> FieldAbsent, dob_match |-> FieldAbsent],
     given |-> [extract |-> "", auth |-> "", cmp |-> EmptyFields]]

\* One call of verify_driver_license, not the first of two.
NoFirstCall ==
    [image |-> [form |-> "plain", b64 |-> "ok"], ocr_result |-> NoOcrResult,
     llm_log |-> NoAnswerLog, result |-> NoResult, raised |-> FALSE]

TwiceIdle ==
    /\ call_no = 0
    /\ first = NoFirstCall

\* The onboarding sessions, by session_id.
Sessions == {"s1", "s2"}

\* What an agent returned: the stage, the session whose data it was given,
\* and the session of the earlier stage's result it was given ("none": it
\* was given no such result).
StageResult(stage, of, saw) == [stage |-> stage, of |-> of, saw |-> saw]

\* None
NoStageResult == StageResult("none", "none", "none")

\* _session_state before the first run_workflow (orchestrator.py, line 49)
NoSessionState ==
    [session_id |-> "none", user_input |-> "none",
     conversation_result |-> NoStageResult, kyc_result |-> NoStageResult,
     advisor_result |-> NoStageResult]

\* aggregate_results has not returned.
NoFinalPayload ==
    [present |-> FALSE, session_id |-> "none", user_profile |-> "none",
     conversation_result |-> NoStageResult, kyc_result |-> NoStageResult,
     advisor_result |-> NoStageResult]

\* A thread of run_workflow: its position, the locals of
\* _run_fallback_workflow, the stages it has run, and what it returned.
Thread(at) ==
    [pc |-> at, conversation_result |-> NoStageResult,
     kyc_result |-> NoStageResult, advisor_result |-> NoStageResult,
     trace |-> <<>>, results |-> NoFinalPayload]

OrchIdle ==
    /\ use_llm = FALSE
    /\ session_state = NoSessionState
    /\ wf = [s \in Sessions |-> Thread("absent")]

\* No AdvisorAgent has been built.
NoAgent ==
    [recommendation_count |-> 0, cards |-> 0, llm |-> "none",
     answer |-> [kind |-> "none", items |-> <<>>]]

NoAdvice == [present |-> FALSE, source |-> "", recommendations |-> <<>>]

AdvisorIdle ==
    /\ agent = NoAgent
    /\ advice = NoAdvice

\* DEFAULT_PROGRESS (src/gateway/api.py, lines 82-87)
StageKeys == <<"conversation", "kyc", "advisor", "audit">>

DEFAULT_PROGRESS == [k \in 1..Len(StageKeys) |-> "pending"]

\* No entry of _SESSIONS.
NoSession == [status |-> "absent", progress |-> DEFAULT_PROGRESS]

\* Nothing of a session runs: no workflow thread, no audit event, no poll.
NoThreads ==
    [run |-> "none", events |-> 0, poll |-> "idle",
     session_progress |-> DEFAULT_PROGRESS, polls |-> 0]

GatewayIdle ==
    /\ table = [s \in Sessions |-> NoSession]
    /\ gw = [s \in Sessions |-> NoThreads]

AgentsIdle ==
    /\ OrchIdle
    /\ AdvisorIdle
    /\ GatewayIdle

\* A str of the request: empty, white space, or text.
Texts == {"", " ", "x"}

\* The image of the request: empty, white space, or one of Images.
PayloadImages == [form : {"empty", "blank"}, b64 : {"ok"}] \cup Images

Payloads ==
    [name : Texts, address : Texts, date_of_birth : Texts,
     driver_license_image : PayloadImages]

NoPayload ==
    [name |-> "", address |-> "", date_of_birth |-> "",
     driver_license_image |-> [form |-> "empty", b64 |-> "ok"]]

\* KYCVerifyResponse (src/gateway/routers/kyc.py, lines 38-47)
KYCVerifyResponse(v, reasons, details) ==
    [present |-> TRUE, verified |-> v, failure_reasons |-> reasons,
     match_details |-> details]

NoResponse ==
    [present |-> FALSE, verified |-> FALSE, failure_reasons |-> <<>>,
     match_details |-> NoDetails]

EndpointIdle ==
    /\ payload = NoPayload
    /\ endpoint_pc = "idle"
    /\ kyc_response = NoResponse

\* Nothing but the identity-document pipeline is in use.
OthersIdle ==
    /\ DatesIdle
    /\ EndpointIdle
    /\ AgentsIdle

RestIdle ==
    /\ OthersIdle
    /\ TwiceIdle
    /\ ocr_result = NoOcrResult

\* No verification, no task and no matching is under way.
KycIdle ==
    /\ pc = "idle"
    /\ driver_license_image = [form |-> "plain", b64 |-> "ok"]
    /\ temp_file = "none"
    /\ ocr_text = ""
    /\ extracted_fields = EmptyFields
    /\ authenticity_result = NoAssessment
    /\ field_comparison_result = NoComparison
    /\ llm_log = NoAnswerLog
    /\ result = NoResult
    /\ raised = FALSE
    /\ cancelled = FALSE
    /\ task_pc = "idle"
    /\ task_docs = <<>>
    /\ task_log = [dob_claimed |-> TRUE, docs |-> <<>>, out_of_order |-> FALSE]
    /\ per_document = <<>>
    /\ task_verdict = NoTaskVerdict
    /\ match_args = NoMatchArgs
    /\ comparison_result = NoComparisonResult
    /\ ocr_result = NoOcrResult

\* What the log keeps of an extraction and of a comparison answer
ExtractLog(ans) ==
    [kind |-> LogKind(ans),
     name |-> ExtractMembers(ans).name,
     address |-> ExtractMembers(ans).address,
     date_of_birth |-> ExtractMembers(ans).date_of_birth]

CmpLog(ans) ==
    [kind |-> LogKind(ans),
     name_match |-> ResponseMembers(ans).name_match,
     address_match |-> ResponseMembers(ans).address_match,
     dob_match |-> ResponseMembers(ans).dob_match]

\* What OCR and the backend give the first of two calls.
FirstCallAnswers ==
    [ocr |-> OcrOutcomes,
     extract |-> {a \in ExtractAnswers :
                     \/ a.kind \in {"raise", "dict", "silent"}
                     \/ a.toks \in {<<"{", "m", "}">>, <<"p">>}},
     auth |-> {a \in AuthAnswers :
                  /\ a.kind \in {"raise", "dict"}
                  /\ a.status \in {Absent, PyStr("verified"), PyStr("rejected")}
                  /\ a.confidence \in {Absent, PyNum(49)}
                  /\ a.flags \in {Absent, PyList(<<"blurry_text">>)}},
     cmp |-> {a \in CmpAnswers :
                 /\ a.kind \in {"raise", "dict"} \/ a.toks \in {<<"{", "m", "}">>, <<"p">>}
                 /\ \A f \in {a.name_match, a.address_match, a.dob_match} :
                        f \in {FieldAbsent, FieldDict(PyStr("match"), PyNum(90)),
                               FieldDict(PyStr("uncertain"), PyNum(59))}}]

\* What the second call is given again: the text OCR gave the first call and
\* the answers the backend gave it.
Repeats(which, ans) ==
    CASE which = "ocr"     -> ans = [exc |-> "none", text |-> first.ocr_result.text]
      [] which = "extract" -> ExtractLog(ans) = first.llm_log.extract
      [] which = "auth"    -> ans = first.llm_log.auth
      [] which = "cmp"     -> CmpLog(ans) = first.llm_log.cmp

\* The outcomes of an OCR or LLM call: any in a single call; in the second
\* of two calls the outcome the first call had.
Admits(which, ans) ==
    CASE call_no = 0 -> TRUE
      [] call_no = 1 -> ans \in FirstCallAnswers[which]
      [] call_no = 2 -> Repeats(which, ans)

InitVerify ==
    /\ pc = "start"
    /\ driver_license_image \in Images
    /\ temp_file = "none"
    /\ ocr_text = ""
    /\ extracted_fields = EmptyFields
    /\ authenticity_result = NoAssessment
    /\ field_comparison_result = NoComparison
    /\ llm_log = NoAnswerLog
    /\ result = NoResult
    /\ raised = FALSE
    /\ cancelled = FALSE
    /\ task_pc = "idle"
    /\ task_docs = <<>>
    /\ task_log = [dob_claimed |-> TRUE, docs |-> <<>>, out_of_order |-> FALSE]
    /\ per_document = <<>>
    /\ task_verdict = NoTaskVerdict
    /\ match_args = NoMatchArgs
    /\ comparison_result = NoComparisonResult
    /\ RestIdle

\* finally, lines 260-266: the temporary file, if one was created, is removed;
\* os.unlink may raise, the exception is logged (lines 264-266) and the file
\* stays.
Finally(tf) == IF tf = "exists" THEN {"deleted", "exists"} ELSE {tf}

\* A return statement inside the try: the finally clause runs, then the
\* caller has the value.
Return(res, tf) ==
    /\ pc' = "done"
    /\ result' = res
    /\ raised' = FALSE
    /\ temp_file' \in Finally(tf)

\* The end of a step that produced [exc, val] inside the outer try: val is
\* returned, or the exception meets the except clause of line 251.
Leave(out, tf) ==
    IF out.exc = "none" THEN Return(out.val, tf)
    ELSE IF VerifyExcept(out.exc)
         THEN Return(ResultDict(FALSE, <<"Verification error">>, NoDetails, ""), tf)
    ELSE /\ pc' = "done"
         /\ result' = NoResult
         /\ raised' = TRUE
         /\ temp_file' \in Finally(tf)

\* The thread stays inside chain.invoke: nothing is returned or raised.
Hung ==
    /\ pc' = "hung"
    /\ UNCHANGED <<temp_file, result, raised>>

\* Lines 58-71
Decode ==
    /\ pc = "start"
    /\ UNCHANGED <<cancelled, task_vars, match_vars, rest_vars>>
    /\ LET e == DecodeError(driver_license_image) IN
       IF e = "none"
       THEN /\ pc' = "decoded"
            /\ driver_license_image' = [form |-> "plain", b64 |-> "ok"]   \* line 61
            /\ UNCHANGED <<temp_file, result, raised>>
       ELSE /\ IF DecodeExcept(e)
               THEN Return(ResultDict(FALSE, <<"Invalid base64 image encoding">>,
                                      NoDetails, ""), temp_file)
               ELSE Leave(Raise(e, NoResult), temp_file)
            /\ UNCHANGED driver_license_image
    /\ UNCHANGED <<ocr_text, extracted_fields, authenticity_result,
                   field_comparison_result, llm_log>>

\* Lines 74-76: the file cannot be created, or is created and the write
\* fails, or is created and written.
SaveTemp ==
    /\ pc = "decoded"
    /\ UNCHANGED <<cancelled, task_vars, match_vars, rest_vars>>
    /\ \E how \in {"ok", "create_fails", "write_fails"} :
         CASE how = "ok" -> /\ pc' = "saved"
                            /\ temp_file' = "exists"
                            /\ UNCHANGED <<result, raised>>
           [] how = "create_fails" -> Leave(Raise("OSError", NoResult), temp_file)
           [] how = "write_fails"  -> Leave(Raise("OSError", NoResult), "exists")
    /\ UNCHANGED <<driver_license_image, ocr_text, extracted_fields,
                   authenticity_result, field_comparison_result, llm_log>>

\* Lines 79-98
RunOCR ==
    /\ pc = "saved"
    /\ UNCHANGED <<cancelled, task_vars, match_vars, other_vars>>
    /\ \E o \in OcrOutcomes :
         /\ Admits("ocr", o)
         /\ IF o.exc # "none"
            THEN /\ IF OcrExcept(o.exc)
                    THEN Return(ResultDict(FALSE, <<"OCR extraction failed">>,
                                           NoDetails, ""), temp_file)
                    ELSE Leave(Raise(o.exc, NoResult), temp_file)
                 /\ UNCHANGED <<ocr_text, ocr_result>>
            ELSE IF OcrTextEmpty(o.text)                              \* line 92
            THEN /\ Return(ResultDict(FALSE,
                       <<"No text could be extracted from the document image">>,
                       NoDetails, ""), temp_file)
                 /\ ocr_result' = [assigned |-> TRUE, text |-> o.text]
                 /\ ocr_text' = o.text
            ELSE /\ pc' = "ocr_done"
                 /\ ocr_result' = [assigned |-> TRUE, text |-> o.text]
                 /\ ocr_text' = o.text
                 /\ UNCHANGED <<temp_file, result, raised>>
    /\ UNCHANGED <<driver_license_image, extracted_fields, authenticity_result,
                   field_comparison_result, llm_log>>

\* Lines 108-115
ExtractFields ==
    /\ pc = "ocr_done"
    /\ UNCHANGED <<cancelled, task_vars, match_vars, rest_vars>>
    /\ \E ans \in ExtractAnswers :
         LET out == extract_fields_from_ocr(ans) IN
         /\ Admits("extract", ans)
         /\ llm_log' = [llm_log EXCEPT !.extract = ExtractLog(ans),
                                       !.given.extract = ExtractArgs(ocr_text)]
         /\ IF Hangs(ans)
            THEN Hung /\ UNCHANGED extracted_fields
            ELSE IF out.exc = "none"
            THEN /\ pc' = "extracted"
                 /\ extracted_fields' = out.val
                 /\ UNCHANGED <<temp_file, result, raised>>
            ELSE /\ Leave(Raise(out.exc, NoResult), temp_file)
                 /\ UNCHANGED extracted_fields
    /\ UNCHANGED <<driver_license_image, ocr_text, authenticity_result,
                   field_comparison_result>>

\* Lines 125-130
AssessAuthenticity ==
    /\ pc = "extracted"
    /\ UNCHANGED <<cancelled, task_vars, match_vars, rest_vars>>
    /\ \E ans \in AuthAnswers :
         LET out == assess_document_authenticity_with_langchain(ans) IN
         /\ Admits("auth", ans)
         /\ llm_log' = [llm_log EXCEPT !.auth = ans,
                                       !.given.auth = AuthenticityArgs(ocr_text)]
         /\ IF Hangs(ans)
            THEN Hung /\ UNCHANGED authenticity_result
            ELSE IF out.exc = "none"
            THEN /\ pc' = "assessed"
                 /\ authenticity_result' = out.val
                 /\ UNCHANGED <<temp_file, result, raised>>
            ELSE /\ Leave(Raise(out.exc, NoResult), temp_file)
                 /\ UNCHANGED authenticity_result
    /\ UNCHANGED <<driver_license_image, ocr_text, extracted_fields,
                   field_comparison_result>>

\* Lines 133-139
CompareFields ==
    /\ pc = "assessed"
    /\ UNCHANGED <<cancelled, task_vars, match_vars, rest_vars>>
    /\ \E ans \in CmpAnswers :
         LET out == compare_fields_with_langchain(ans) IN
         /\ Admits("cmp", ans)
         /\ llm_log' = [llm_log EXCEPT !.cmp = CmpLog(ans),
                                       !.given.cmp = CompareArgs(extracted_fields)]
         /\ IF Hangs(ans)
            THEN Hung /\ UNCHANGED field_comparison_result
            ELSE IF out.exc = "none"
            THEN /\ pc' = "compared"
                 /\ field_comparison_result' = out.val
                 /\ UNCHANGED <<temp_file, result, raised>>
            ELSE /\ Leave(Raise(out.exc, NoResult), temp_file)
                 /\ UNCHANGED field_comparison_result
    /\ UNCHANGED <<driver_license_image, ocr_text, extracted_fields,
                   authenticity_result>>

\* Lines 141-258
AnalyseAndReturn ==
    /\ pc = "compared"
    /\ UNCHANGED <<cancelled, task_vars, match_vars, rest_vars>>
    /\ Leave(Analyse(authenticity_result, field_comparison_result,
                     extracted_fields, ocr_text), temp_file)
    /\ UNCHANGED <<driver_license_image, ocr_text, extracted_fields,
                   authenticity_result, field_comparison_result, llm_log>>

\* The caller of POST /kyc/verify goes away while the request is served.
\* verify_driver_license takes no cancellation token and tests nothing.
CallerDisconnects ==
    /\ pc \notin {"done", "hung", "idle"}
    /\ ~cancelled
    /\ cancelled' = TRUE
    /\ UNCHANGED <<pc, driver_license_image, temp_file, ocr_text, extracted_fields,
                   authenticity_result, field_comparison_result, llm_log, result,
                   raised, task_vars, match_vars, rest_vars>>

NextVerify ==
    \/ CallerDisconnects
    \/ Decode
    \/ SaveTemp
    \/ RunOCR
    \/ ExtractFields
    \/ AssessAuthenticity
    \/ CompareFields
    \/ AnalyseAndReturn

SpecVerify == InitVerify /\ [][NextVerify]_vars

\* Two calls of verify_driver_license, one after the other, with the same
\* arguments; OCR and the backend give the second what they gave the first.
InitTwice ==
    /\ pc = "start"
    /\ driver_license_image \in Images
    /\ temp_file = "none"
    /\ ocr_text = ""
    /\ extracted_fields = EmptyFields
    /\ authenticity_result = NoAssessment
    /\ field_comparison_result = NoComparison
    /\ llm_log = NoAnswerLog
    /\ result = NoResult
    /\ raised = FALSE
    /\ cancelled = FALSE
    /\ task_pc = "idle"
    /\ task_docs = <<>>
    /\ task_log = [dob_claimed |-> TRUE, docs |-> <<>>, out_of_order |-> FALSE]
    /\ per_document = <<>>
    /\ task_verdict = NoTaskVerdict
    /\ match_args = NoMatchArgs
    /\ comparison_result = NoComparisonResult
    /\ OthersIdle
    /\ ocr_result = NoOcrResult
    /\ call_no = 1
    /\ first = [NoFirstCall EXCEPT !.image = driver_license_image]

\* The first call has returned with an OCR text; the second call starts:
\* the same arguments, and a new frame (line 55).
CallAgain ==
    /\ call_no = 1
    /\ pc = "done"
    /\ ocr_result.assigned
    /\ call_no' = 2
    /\ first' = [image |-> first.image, ocr_result |-> ocr_result,
                 llm_log |-> llm_log, result |-> result, raised |-> raised]
    /\ pc' = "start"
    /\ driver_license_image' = first.image
    /\ temp_file' = "none"
    /\ ocr_text' = ""
    /\ ocr_result' = NoOcrResult
    /\ extracted_fields' = EmptyFields
    /\ authenticity_result' = NoAssessment
    /\ field_comparison_result' = NoComparison
    /\ llm_log' = NoAnswerLog
    /\ result' = NoResult
    /\ raised' = FALSE
    /\ UNCHANGED <<cancelled, task_vars, match_vars, date_vars, endpoint_vars,
                   agents_vars>>

NextTwice ==
    \/ Decode
    \/ SaveTemp
    \/ RunOCR
    \/ ExtractFields
    \/ AssessAuthenticity
    \/ CompareFields
    \/ AnalyseAndReturn
    \/ CallAgain

SpecTwice == InitTwice /\ [][NextTwice]_vars

-----------------------------------------------------------------------------
(* src/gateway/routers/kyc.py: POST /kyc/verify                            *)

\* "not x": the empty str only
IsBlankEmptyOnly(x) == x = ""

\* "not x or not x.strip()", lines 108, 115, 122 and 129
IsBlank(x) == x = "" \/ x = " "

ImageText(img) ==
    CASE img.form = "empty" -> ""
      [] img.form = "blank" -> " "
      [] OTHER              -> "x"

\* Lines 108-134: the reason of the first blank field, <<>> if there is none.
BlankReasons(p) ==
    IF IsBlank(p.name) THEN <<"Name is required">>
    ELSE IF IsBlank(p.address) THEN <<"Address is required">>
    ELSE IF IsBlank(p.date_of_birth) THEN <<"Date of birth is required">>
    ELSE IF IsBlank(ImageText(p.driver_license_image))
    THEN <<"Driver's license image is required">>
    ELSE <<>>

\* A request of POST /kyc/verify has been parsed; the outcomes of OCR and of
\* the LLM calls are those of FirstCallAnswers.
InitEndpoint ==
    /\ KycIdle
    /\ DatesIdle
    /\ AgentsIdle
    /\ call_no = 1
    /\ first = NoFirstCall
    /\ payload \in Payloads
    /\ endpoint_pc = "received"
    /\ kyc_response = NoResponse

\* Lines 108-150: a blank field is answered at once; otherwise
\* verify_driver_license is called.
ValidateInput ==
    /\ endpoint_pc = "received"
    /\ IF BlankReasons(payload) # <<>>
       THEN /\ kyc_response' = KYCVerifyResponse(FALSE, BlankReasons(payload), NoDetails)
            /\ endpoint_pc' = "answered"
            /\ UNCHANGED <<pc, driver_license_image>>
       ELSE /\ pc' = "start"
            /\ driver_license_image' = payload.driver_license_image
            /\ endpoint_pc' = "calling"
            /\ UNCHANGED kyc_response
    /\ UNCHANGED <<payload, temp_file, ocr_text, extracted_fields,
                   authenticity_result, field_comparison_result, llm_log, result,
                   raised, cancelled, task_vars, match_vars, date_vars,
                   twice_vars, agents_vars, ocr_result>>

\* Lines 152-164: the result of the call becomes the response; an exception
\* of the call becomes a response with one reason.
AnswerRequest ==
    /\ endpoint_pc = "calling"
    /\ pc = "done"
    /\ kyc_response' =
          IF raised
          THEN KYCVerifyResponse(FALSE, <<"Verification error">>, NoDetails)
          ELSE KYCVerifyResponse(result.verified, result.failure_reasons,
                                 result.match_details)
    /\ endpoint_pc' = "answered"
    /\ UNCHANGED <<payload, verify_vars, task_vars, match_vars, date_vars,
                   twice_vars, agents_vars, ocr_result>>

NextEndpoint ==
    \/ ValidateInput
    \/ Decode
    \/ SaveTemp
    \/ RunOCR
    \/ ExtractFields
    \/ AssessAuthenticity
    \/ CompareFields
    \/ AnalyseAndReturn
    \/ AnswerRequest

SpecEndpoint == InitEndpoint /\ [][NextEndpoint]_vars

-----------------------------------------------------------------------------
(* src/agents/kyc/genai_validator.py *)

\* What POST /api/generate can give: the request raises (unreachable, HTTP
\* error status), the backend never answers and requests.post(timeout=...)
\* raises Timeout, the body or its "response" text is no JSON,
\* the text is empty, the text is JSON but no object, or it is an object.
GenAiAnswers ==
    {[kind |-> k, status |-> Absent, confidence |-> Absent, flags |-> Absent] :
        k \in {"raise", "silent", "badjson", "empty", "nondict"}}
    \cup
    {[kind |-> "dict", status |-> st, confidence |-> PyNum(90), flags |-> f] :
        st \in AuthStatusVals,
        f \in {Absent, PyList(<<"llm_evaluation_failed">>),
               PyList(<<"name_not_found", "name_not_found">>), PyNum(3)}}

\* The value of the except block, lines 79-85.
GenAiSentinel ==
    [status |-> PyStr("manual_review"),
     flags |-> PyList(<<"llm_evaluation_failed">>),
     confidence |-> PyNum(0)]

\* Body of assess_document_authenticity, lines 60-76.  An empty "response"
\* text is read as the empty object (line 69).
GenAiBody(ans) ==
    CASE ans.kind = "raise"   -> Raise("RequestException", GenAiSentinel)
      [] ans.kind = "silent"  -> Raise("Timeout", GenAiSentinel)   \* line 64
      [] ans.kind = "badjson" -> Raise("JSONDecodeError", GenAiSentinel)
      [] ans.kind = "nondict" -> Raise("AttributeError", GenAiSentinel)
      [] OTHER ->
            Ok([status |-> Get(ans.status, PyStr("manual_review")),
                flags |-> Get(ans.flags, PyList(<<>>)),
                confidence |-> Get(ans.confidence, PyNum(0))])

\* except Exception, line 77
GenAiExcept(e) == e # "none"

\* assess_document_authenticity, lines 40-85
assess_document_authenticity(ans) ==
    LET b == GenAiBody(ans) IN
    IF b.exc = "none" THEN b
    ELSE IF GenAiExcept(b.exc) THEN Ok(GenAiSentinel)
    ELSE b

-----------------------------------------------------------------------------
(* src/agents/kyc/compare_utils.py *)

\* The mean taken over both scores, absent ones included
OverallScorePlainMean(name_score, dob_score) == (name_score + dob_score) \div 2

\* evaluate_user_data, lines 65-67: the mean of the scores that are > 0.
\* Scores are thousandths; the sub-scores drawn below make the mean exact.
OverallScore(name_score, dob_score) ==
    LET available == SelectSeq(<<name_score, dob_score>>, LAMBDA x : x > 0)
    IN IF Len(available) = 0 THEN 0
       ELSE IF Len(available) = 1 THEN available[1]
       ELSE (available[1] + available[2]) \div 2

\* Best name and date scores the matcher can report.
NameScores == {0, 600}

DobScores == {0, 700}

MaxLines == 2

\* What fuzz.token_set_ratio and fuzz.partial_ratio can give, out of 0..100.
Ratios == {0, 60, 100}

\* A match of DOB_PATTERN in a line (lines 58-59): whether its digits are
\* those of the expected date, and the partial_ratio of the two digit strings.
DateCandidates ==
    {[digits_equal |-> TRUE, partial_ratio |-> 100],
     [digits_equal |-> FALSE, partial_ratio |-> 70],
     [digits_equal |-> FALSE, partial_ratio |-> 0]}

\* An OCR line: the empty string, or a text with its token_set_ratio against
\* the expected name and the dates DOB_PATTERN finds in it.
OcrLines ==
    {[empty |-> TRUE, token_set_ratio |-> 0, dates |-> <<>>]}
    \cup
    {[empty |-> FALSE, token_set_ratio |-> r, dates |-> d] :
        r \in Ratios, d \in {<<>>} \cup {<<c>> : c \in DateCandidates}}

\* _score_strings(_normalise(line), normalised_name), lines 23-26 and 50.
\* name_given: expected_full_name is neither None nor empty (line 45).
score_strings(line, name_given) ==
    IF line.empty \/ ~name_given THEN 0 ELSE 10 * line.token_set_ratio

\* _score_dates(candidate, expected_dob or ""), lines 29-38 and 60.
\* dob_given: expected_dob holds a digit.
score_dates(candidate, dob_given) ==
    IF ~dob_given THEN 0
    ELSE IF candidate.digits_equal THEN 1000
    ELSE 10 * candidate.partial_ratio

RECURSIVE BestNameScore(_, _, _)
\* Lines 47-53: the best score is replaced only by a greater one.
BestNameScore(lines, name_given, best) ==
    IF lines = <<>> THEN best
    ELSE LET score == score_strings(Head(lines), name_given)
         IN BestNameScore(Tail(lines), name_given, IF score > best THEN score ELSE best)

RECURSIVE AllCandidates(_)
\* Lines 57-59: the matches of all lines, line by line.
AllCandidates(lines) ==
    IF lines = <<>> THEN <<>> ELSE Head(lines).dates \o AllCandidates(Tail(lines))

RECURSIVE BestDobScore(_, _, _)
\* Lines 55-63
BestDobScore(candidates, dob_given, best) ==
    IF candidates = <<>> THEN best
    ELSE LET score == score_dates(Head(candidates), dob_given)
         IN BestDobScore(Tail(candidates), dob_given, IF score > best THEN score ELSE best)

\* evaluate_user_data, lines 41-75
evaluate_user_data(ocr_lines, name_given, dob_given) ==
    LET lines == SelectSeq(ocr_lines, LAMBDA line : ~line.empty)       \* line 44
        best_name_score == BestNameScore(lines, name_given, 0)
        best_dob_score == BestDobScore(AllCandidates(lines), dob_given, 0)
    IN [present |-> TRUE,
        match_score |-> OverallScore(best_name_score, best_dob_score),
        name_score |-> best_name_score,
        dob_score |-> best_dob_score]

\* The characters of a date string: two digits and two separators.
DateChars == {"1", "8", "-", "/"}

DigitChars == {"1", "8"}

MaxDateLen == 3

\* The strings _score_dates is given: sequences of characters.
DateStrings == UNION {[1..k -> DateChars] : k \in 0..MaxDateLen}

\* re.sub(r"\D", "", value), lines 32-33
DigitsOnly(value) == SelectSeq(value, LAMBDA c : c \in DigitChars)

RECURSIVE LCS(_, _)
\* Length of the longest common subsequence: rapidfuzz's ratio is the
\* normalised InDel similarity, 2 * LCS / (len(a) + len(b)).
LCS(a, b) ==
    IF a = <<>> \/ b = <<>> THEN 0
    ELSE IF Head(a) = Head(b) THEN 1 + LCS(Tail(a), Tail(b))
    ELSE LET x == LCS(Tail(a), b)
             y == LCS(a, Tail(b))
         IN IF x > y THEN x ELSE y

\* fuzz.ratio(a, b) / 100 in thousandths, truncated
Ratio(a, b) ==
    IF Len(a) + Len(b) = 0 THEN 1000 ELSE (2000 * LCS(a, b)) \div (Len(a) + Len(b))

\* The windows of the longer string fuzz.partial_ratio aligns the shorter
\* one with: every substring of the shorter one's length, and the shorter
\* substrings at either end.
Windows(long, n) ==
    {SubSeq(long, i, j) : <<i, j>> \in
        {w \in (1..Len(long)) \X (1..Len(long)) :
            /\ w[1] <= w[2]
            /\ w[2] - w[1] + 1 <= n
            /\ (w[2] - w[1] + 1 = n \/ w[1] = 1 \/ w[2] = Len(long))}}

\* The greatest number of a non-empty set of numbers
Maximum(S) == CHOOSE x \in S : \A y \in S : y <= x

\* fuzz.partial_ratio(a, b) / 100 in thousandths (line 38): the best ratio
\* of the shorter string against a window of the longer one.
PartialRatio(a, b) ==
    LET short == IF Len(a) <= Len(b) THEN a ELSE b
        long == IF Len(a) <= Len(b) THEN b ELSE a
    IN IF short = <<>> THEN (IF long = <<>> THEN 1000 ELSE 0)
       ELSE Maximum({Ratio(short, w) : w \in Windows(long, Len(short))})

\* _score_dates on the characters of its arguments, lines 29-38
ScoreDates(ocr_value, expected) ==
    IF ocr_value = <<>> \/ expected = <<>> THEN 0                     \* 30-31
    ELSE LET digits_only == DigitsOnly(ocr_value)
             expected_digits == DigitsOnly(expected)
         IN IF digits_only = <<>> \/ expected_digits = <<>> THEN 0   \* 34-35
            ELSE IF digits_only = expected_digits THEN 1000           \* 36-37
            ELSE PartialRatio(digits_only, expected_digits)           \* 38

-----------------------------------------------------------------------------
(* The Document Evaluator and the Task Aggregator of the design (sections   *)
(* 4.3 and 4.4 of the specification).                                      *)

MaxDocs == 2

MATCH_SCORE_THRESHOLD == 650

ManualReview == PyStr("manual_review")

Rejected == PyStr("rejected")

Verified == PyStr("verified")

RECURSIVE DedupKeepLast(_)
\* Of a repeated flag the last one is kept
DedupKeepLast(q) ==
    IF q = <<>> THEN <<>>
    ELSE LET rest == DedupKeepLast(Tail(q))
         IN IF \E i \in DOMAIN rest : rest[i] = Head(q) THEN rest ELSE <<Head(q)>> \o rest

RECURSIVE Dedup(_)
\* Order-preserving removal of repeated flags.
Dedup(q) ==
    IF q = <<>> THEN <<>>
    ELSE LET rest == Dedup(SubSeq(q, 1, Len(q) - 1))
             x == q[Len(q)]
         IN IF \E i \in DOMAIN rest : rest[i] = x THEN rest ELSE Append(rest, x)

Has(q, x) == \E i \in DOMAIN q : q[i] = x

DocumentVerdict(type, status, score, flags, name_score, dob_score, confidence) ==
    [document_type |-> type, status |-> status, match_score |-> score,
     flags |-> flags,
     metadata |-> [name_score |-> name_score, dob_score |-> dob_score,
                   llm_confidence |-> confidence]]

\* Step 4: authenticity flags first, then the matcher's flags.
AccumulateFlags(auth_flags, fm, dob_claimed) ==
    Dedup(auth_flags
          \o (IF fm.match_score < MATCH_SCORE_THRESHOLD
              THEN <<"low_match_score">> ELSE <<>>)
          \o (IF fm.name_score = 0 THEN <<"name_not_found">> ELSE <<>>)
          \o (IF fm.dob_score = 0 /\ dob_claimed THEN <<"dob_not_found">> ELSE <<>>))

\* A verified status kept although the match score is below the threshold
FuseStatusNoDowngrade(auth_status, match_score, flags) ==
    IF Has(flags, "llm_evaluation_failed") /\ auth_status # Rejected
    THEN ManualReview
    ELSE auth_status

\* Step 5: start from the authenticity status; verified becomes
\* manual_review below the threshold; llm_evaluation_failed forces
\* manual_review; rejected is never overridden.
FuseStatus(auth_status, match_score, flags) ==
    LET downgraded == IF auth_status = Verified /\ match_score < MATCH_SCORE_THRESHOLD
                      THEN ManualReview ELSE auth_status
    IN IF Has(flags, "llm_evaluation_failed") /\ downgraded # Rejected
       THEN ManualReview
       ELSE downgraded

\* A position of per_document whose document has no verdict yet.
PendingVerdict == DocumentVerdict("", Absent, 0, <<>>, 0, 0, Absent)

\* The verdict of the failure handling of section 4.3.
ProcessingError(doc) ==
    DocumentVerdict(doc.type, ManualReview, 0, <<"processing_error">>, 0, 0, PyNum(0))

\* Steps 1-6 for one document.  ocr: "not_found" | "error" | "empty" | "text".
\* Flags that are no list cannot be accumulated: TypeError.
EvaluateBody(doc, ocr, fm, ans, dob_claimed) ==
    IF ocr = "not_found"
    THEN Ok(DocumentVerdict(doc.type, ManualReview, 0, <<"document_missing">>,
                            0, 0, PyNum(0)))
    ELSE IF ocr \in {"error", "empty"}
    THEN Ok(DocumentVerdict(doc.type, ManualReview, 0, <<"ocr_failed">>, 0, 0, PyNum(0)))
    ELSE LET a == assess_document_authenticity(ans) IN
         IF a.exc # "none" THEN Raise(a.exc, ProcessingError(doc))
         ELSE IF a.val.flags.t # "list" THEN Raise("TypeError", ProcessingError(doc))
         ELSE LET flags == AccumulateFlags(a.val.flags.l, fm, dob_claimed) IN
              Ok(DocumentVerdict(doc.type,
                                 FuseStatus(a.val.status, fm.match_score, flags),
                                 fm.match_score, flags, fm.name_score, fm.dob_score,
                                 a.val.confidence))

\* No exception of a document is caught
EvaluatorExceptNothing(e) == FALSE

\* Failure handling of section 4.3: any exception of steps 1-5 is caught.
EvaluatorExcept(e) == e # "none"

\* One document: its verdict, or the exception that leaves the evaluator.
EvaluateOne(doc, ocr, fm, ans, dob_claimed) ==
    LET b == EvaluateBody(doc, ocr, fm, ans, dob_claimed) IN
    IF b.exc = "none" THEN b
    ELSE IF EvaluatorExcept(b.exc) THEN Ok(ProcessingError(doc))
    ELSE b

\* The status of a task without documents
EmptyTaskStatusVerified == Verified

\* Section 4.4: a task with zero documents is manual_review.
EmptyTaskStatus == ManualReview

RECURSIVE FoldStatusLastWins(_, _)
\* Each document overwrites the status: no short-circuit on rejected
FoldStatusLastWins(status, q) ==
    IF q = <<>> THEN status
    ELSE IF Head(q).status \in {Rejected, ManualReview}
         THEN FoldStatusLastWins(Head(q).status, Tail(q))
    ELSE FoldStatusLastWins(status, Tail(q))

RECURSIVE FoldStatus(_, _)
\* Section 4.4: rejected ends the fold at once; manual_review replaces
\* verified and the fold goes on.
FoldStatus(status, q) ==
    IF q = <<>> THEN status
    ELSE IF Head(q).status = Rejected THEN Rejected
    ELSE IF Head(q).status = ManualReview THEN FoldStatus(ManualReview, Tail(q))
    ELSE FoldStatus(status, Tail(q))

RECURSIVE SumScores(_)
SumScores(q) == IF q = <<>> THEN 0 ELSE Head(q).match_score + SumScores(Tail(q))

RECURSIVE AllFlags(_)
AllFlags(q) == IF q = <<>> THEN <<>> ELSE Head(q).flags \o AllFlags(Tail(q))

\* Section 4.4: the TaskVerdict of a sequence of DocumentVerdicts.  The mean
\* match score is kept as sum and count.
Aggregate(q) ==
    [status |-> IF q = <<>> THEN EmptyTaskStatus ELSE FoldStatus(Verified, q),
     match_score |-> [sum |-> SumScores(q), count |-> Len(q)],
     flags |-> Dedup(AllFlags(q)),
     per_document |-> q]

DocTypes == <<"driver_license", "passport">>

\* The i-th document of a request: neighbours differ in their type.
RequestDocument(i) ==
    [type |-> DocTypes[((i - 1) % 2) + 1], file_path |-> "upload.jpg"]

Documents == {RequestDocument(i) : i \in 1..MaxDocs}

\* The documents of a request with n documents.
RequestDocuments(n) == [i \in 1..n |-> RequestDocument(i)]

FuzzyResults(dob_claimed) ==
    {[name_score |-> n, dob_score |-> d, match_score |-> OverallScore(n, d)] :
        n \in NameScores, d \in IF dob_claimed THEN DobScores ELSE {0}}

NoFuzzy == [name_score |-> 0, dob_score |-> 0, match_score |-> 0]

\* What is known of a document before and after its evaluation.
PendingLog == [ocr |-> "pending",
               auth |-> [status |-> Absent, flags |-> Absent, confidence |-> Absent]]

InitTask ==
    /\ pc = "idle"
    /\ driver_license_image = [form |-> "plain", b64 |-> "ok"]
    /\ temp_file = "none"
    /\ ocr_text = ""
    /\ extracted_fields = EmptyFields
    /\ authenticity_result = NoAssessment
    /\ field_comparison_result = NoComparison
    /\ llm_log = NoAnswerLog
    /\ result = NoResult
    /\ raised = FALSE
    /\ cancelled = FALSE
    /\ task_pc = "evaluating"
    /\ task_docs \in {RequestDocuments(n) : n \in 0..MaxDocs}
    \* the identity claim of the request carries a date of birth, or none
    /\ task_log \in {[dob_claimed |-> b,
                      docs |-> [i \in 1..Len(task_docs) |-> PendingLog],
                      out_of_order |-> FALSE] : b \in BOOLEAN}
    /\ per_document = [i \in 1..Len(task_docs) |-> PendingVerdict]
    /\ task_verdict = NoTaskVerdict
    /\ match_args = NoMatchArgs
    /\ comparison_result = NoComparisonResult
    /\ RestIdle

Evaluated(i) == task_log.docs[i].ocr # "pending"

\* The verdict filed under the number of documents done so far
SlotByCompletion(i, done) == done + 1

\* The verdict of the i-th document is filed at position i, however many
\* documents are done before it.
SlotOf(i, done) == i

\* Some document of the request is evaluated; the documents are independent
\* and end in any order.  An exception the evaluator does not catch ends the
\* task.
EvaluateDocument ==
    /\ task_pc = "evaluating"
    /\ \E i \in DOMAIN task_docs :
         /\ ~Evaluated(i)
         /\ \E ocr \in {"not_found", "error", "empty", "text"}, ans \in GenAiAnswers,
               fm \in FuzzyResults(task_log.dob_claimed) :
              /\ ocr # "text" => fm = NoFuzzy /\ ans.kind = "raise"
              /\ LET out == EvaluateOne(task_docs[i], ocr, fm, ans, task_log.dob_claimed)
                     done == Cardinality({j \in DOMAIN task_docs : Evaluated(j)})
                 IN /\ task_log' =
                         [task_log EXCEPT
                            !.docs[i] =
                               [ocr |-> ocr,
                                auth |-> IF ocr = "text"
                                         THEN assess_document_authenticity(ans).val
                                         ELSE PendingLog.auth],
                            !.out_of_order =
                               @ \/ \E j \in 1..(i - 1) : ~Evaluated(j)]
                    /\ IF out.exc = "none"
                       THEN /\ per_document' =
                                 [per_document EXCEPT ![SlotOf(i, done)] = out.val]
                            /\ UNCHANGED task_pc
                       ELSE /\ task_pc' = "aborted"
                            /\ UNCHANGED per_document
    /\ UNCHANGED <<task_docs, task_verdict, verify_vars, match_vars, rest_vars>>

\* All documents have their verdict: the Task Aggregator folds them.
AggregateTask ==
    /\ task_pc = "evaluating"
    /\ \A i \in DOMAIN task_docs : Evaluated(i)
    /\ task_verdict' = Aggregate(per_document)
    /\ task_pc' = "done"
    /\ UNCHANGED <<task_docs, task_log, per_document, verify_vars, match_vars, rest_vars>>

NextTask ==
    \/ EvaluateDocument
    \/ AggregateTask

SpecTask == InitTask /\ [][NextTask]_vars

\* A call of evaluate_user_data on the lines of one document.
InitMatch ==
    /\ pc = "idle"
    /\ driver_license_image = [form |-> "plain", b64 |-> "ok"]
    /\ temp_file = "none"
    /\ ocr_text = ""
    /\ extracted_fields = EmptyFields
    /\ authenticity_result = NoAssessment
    /\ field_comparison_result = NoComparison
    /\ llm_log = NoAnswerLog
    /\ result = NoResult
    /\ raised = FALSE
    /\ cancelled = FALSE
    /\ task_pc = "idle"
    /\ task_docs = <<>>
    /\ task_log = [dob_claimed |-> TRUE, docs |-> <<>>, out_of_order |-> FALSE]
    /\ per_document = <<>>
    /\ task_verdict = NoTaskVerdict
    /\ match_args \in [ocr_lines : UNION {[1..k -> OcrLines] : k \in 0..MaxLines},
                       name_given : BOOLEAN, dob_given : BOOLEAN]
    /\ comparison_result = NoComparisonResult
    /\ RestIdle

EvaluateUserData ==
    /\ ~comparison_result.present
    /\ pc = "idle"
    /\ task_pc = "idle"
    /\ comparison_result' = evaluate_user_data(match_args.ocr_lines,
                                               match_args.name_given,
                                               match_args.dob_given)
    /\ UNCHANGED <<match_args, verify_vars, task_vars, rest_vars>>

NextMatch == EvaluateUserData

SpecMatch == InitMatch /\ [][NextMatch]_vars

\* A call of _score_dates on two strings.
InitDates ==
    /\ KycIdle
    /\ TwiceIdle
    /\ EndpointIdle
    /\ AgentsIdle
    /\ date_args \in [ocr_value : DateStrings, expected : DateStrings]
    /\ date_score = NotScored

ScoreTheDates ==
    /\ date_score = NotScored
    /\ date_args # NoDateArgs
    /\ date_score' = ScoreDates(date_args.ocr_value, date_args.expected)
    /\ UNCHANGED <<date_args, verify_vars, task_vars, match_vars, twice_vars,
                   endpoint_vars, agents_vars, ocr_result>>

NextDates == ScoreTheDates

SpecDates == InitDates /\ [][NextDates]_vars

-----------------------------------------------------------------------------
(* src/orchestrator/orchestrator.py: BankBotOrchestrator.run_workflow.     *)
(* The gateway holds one orchestrator (src/gateway/api.py, line 79) and    *)
(* runs the workflow of every session on it, each in a thread of its own   *)
(* (lines 236-283 and 291).  The agents and the crew are black boxes: an   *)
(* agent returns a result made of what it was given, or raises; the crew   *)
(* runs its three tasks in order, and in each task the LLM uses the task's *)
(* tool or does not.                                                       *)

\* The thread of session s moves to position at; upd are its other changes.
Moved(s, at, upd) == [wf EXCEPT ![s] = [upd EXCEPT !.pc = at]]

\* The session a result is about, "none" for None.
OfResult(r) == IF r.stage = "none" THEN "none" ELSE r.of

\* Lines 234-260: a new _session_state replaces the old one.
RunWorkflow(s) ==
    /\ wf[s].pc = "new"
    /\ session_state' = [NoSessionState EXCEPT !.session_id = s, !.user_input = s]
    /\ wf' = Moved(s, IF use_llm THEN "crew_conversation" ELSE "fallback_conversation",
                   wf[s])
    /\ UNCHANGED use_llm

\* What the tool of a crew task, or the same stage of the fallback workflow,
\* makes of _session_state: the result of the agent.  In the fallback
\* workflow KYC and Advisor are given the locals (lines 339, 358-359), in a
\* tool what _session_state holds (lines 169, 203-206).
StageRun(stage, local) ==
    CASE stage = "conversation" ->
             StageResult("Conversation", session_state.session_id, "none")
      [] stage = "kyc" ->
             StageResult("KYC", session_state.user_input,
                         OfResult(IF local.pc = "fallback_kyc"
                                  THEN local.conversation_result
                                  ELSE session_state.conversation_result))
      [] stage = "advisor" ->
             StageResult("Advisor", session_state.session_id,
                         OfResult(IF local.pc = "fallback_advisor"
                                  THEN local.kyc_result
                                  ELSE session_state.kyc_result))

StageName(stage) ==
    CASE stage = "conversation" -> "Conversation"
      [] stage = "kyc" -> "KYC"
      [] stage = "advisor" -> "Advisor"
      [] stage = "audit" -> "Audit"

StageAfter(stage) ==
    CASE stage = "conversation" -> "kyc"
      [] stage = "kyc" -> "advisor"
      [] stage = "advisor" -> "audit"

\* The stage is run and its result stored (lines 158, 181, 219; 332, 344,
\* 362); the thread goes on at position at.
RunStage(s, stage, at) ==
    LET r == StageRun(stage, wf[s])
        key == stage \o "_result"
    IN /\ session_state' = [session_state EXCEPT ![key] = r]
       /\ wf' = Moved(s, at, [wf[s] EXCEPT ![key] = r,
                                           !.trace = Append(@, StageName(stage))])

\* Lines 262-271, with the tools of lines 150-221: crew.kickoff is at one of
\* its three tasks.  The task uses its tool, or ends without using it, or
\* kickoff raises and the fallback workflow runs.
CrewTask(s) ==
    /\ \E stage \in {"conversation", "kyc", "advisor"} :
         /\ wf[s].pc = "crew_" \o stage
         /\ \/ RunStage(s, stage, "crew_" \o StageAfter(stage))
            \/ /\ wf' = Moved(s, "crew_" \o StageAfter(stage), wf[s])
               /\ UNCHANGED session_state
            \/ /\ wf' = Moved(s, "fallback_conversation", wf[s])
               /\ UNCHANGED session_state
    /\ UNCHANGED use_llm

\* Lines 327-363: a stage of _run_fallback_workflow; an agent that raises
\* ends run_workflow with the exception.
FallbackStage(s) ==
    /\ \E stage \in {"conversation", "kyc", "advisor"} :
         /\ wf[s].pc = "fallback_" \o stage
         /\ \/ RunStage(s, stage, "fallback_" \o StageAfter(stage))
            \/ /\ wf' = Moved(s, "raised", wf[s])
               /\ UNCHANGED session_state
    /\ UNCHANGED use_llm

\* Lines 274-278 and 365-369: the closing audit event.
AuditStage(s) ==
    /\ wf[s].pc \in {"crew_audit", "fallback_audit"}
    /\ wf' = Moved(s, "aggregate", [wf[s] EXCEPT !.trace = Append(@, "Audit")])
    /\ UNCHANGED <<use_llm, session_state>>

\* aggregate_results, lines 281-322: the payload is read from
\* _session_state; _run_workflow_async stores it as the results of session
\* s (src/gateway/api.py, lines 256-272).
AggregateResults(s) ==
    /\ wf[s].pc = "aggregate"
    /\ wf' = Moved(s, "returned",
                   [wf[s] EXCEPT !.results =
                       [present |-> TRUE,
                        session_id |-> session_state.session_id,
                        user_profile |-> session_state.user_input,
                        conversation_result |-> session_state.conversation_result,
                        kyc_result |-> session_state.kyc_result,
                        advisor_result |-> session_state.advisor_result]])
    /\ UNCHANGED <<use_llm, session_state>>

NextWorkflow ==
    /\ \E s \in Sessions :
         \/ RunWorkflow(s)
         \/ CrewTask(s)
         \/ FallbackStage(s)
         \/ AuditStage(s)
         \/ AggregateResults(s)
    /\ UNCHANGED <<verify_vars, task_vars, match_vars, date_vars, twice_vars,
                   endpoint_vars, advisor_vars, gateway_vars, ocr_result>>

\* One session: its workflow runs alone on the orchestrator.
InitWorkflow ==
    /\ KycIdle
    /\ DatesIdle
    /\ TwiceIdle
    /\ EndpointIdle
    /\ AdvisorIdle
    /\ GatewayIdle
    /\ use_llm \in BOOLEAN
    /\ session_state = NoSessionState
    /\ \E only \in Sessions :
         wf = [s \in Sessions |-> Thread(IF s = only THEN "new" ELSE "absent")]

SpecWorkflow == InitWorkflow /\ [][NextWorkflow]_vars

\* Two sessions: POST /onboard was called twice.
InitSessions ==
    /\ KycIdle
    /\ DatesIdle
    /\ TwiceIdle
    /\ EndpointIdle
    /\ AdvisorIdle
    /\ GatewayIdle
    /\ use_llm \in BOOLEAN
    /\ session_state = NoSessionState
    /\ wf = [s \in Sessions |-> Thread("new")]

SpecSessions == InitSessions /\ [][NextWorkflow]_vars

-----------------------------------------------------------------------------
(* src/agents/advisor/advisor_agent.py: AdvisorAgent.run.  The catalogue   *)
(* CREDIT_CARDS is imported (line 13); of it the code uses the length and  *)
(* the card names, so the catalogue is the cards 1..cards, at least one.   *)
(* The LLM is                                                              *)
(* disabled (ENABLE_OLLAMA), unavailable (the probe of base_agent.py,      *)
(* lines 53-70, fails) or ready, and what it answers is a black box.       *)

MaxCards == 3
MaxCount == 4
MaxAnswer == 2

\* The default of ADVISOR_RECOMMENDATIONS (line 260).
DefaultCount == 3

RequiredKeys ==
    {"card_name", "annual_fee", "interest_rate", "rewards", "requirements",
     "why_recommended"}

\* __init__, line 260: recommendation_count or int(os.getenv(...)); arg 0
\* stands for None and for 0.
RecommendationCount(arg) == IF arg = 0 THEN DefaultCount ELSE arg

\* An entry of "recommendations": the card it names and the keys it has.
Recommendation(card) == [card_name |-> card, keys |-> RequiredKeys]

\* random.sample(population of n, k): k different cards in some order.
Samples(n, k) ==
    {q \in [1..k -> 1..n] : \A i, j \in 1..k : i # j => q[i] # q[j]}

\* _fallback_recommendations, lines 400-414: every list it may return.
FallbackRecommendations(a) ==
    LET k == IF a.recommendation_count < a.cards
             THEN a.recommendation_count ELSE a.cards
    IN {[i \in 1..k |-> Recommendation(q[i])] : q \in Samples(a.cards, k)}

\* What the LLM path hands to _validate_recommendations: the call raised,
\* "recommendations" is not a list, or a list of items.  An item names a
\* card of the catalogue ("known", card 1), names no card of it, has an
\* empty field, or is not a dict.
AnswerItems == {"known", "unknown", "incomplete", "notdict"}

Answers ==
    [kind : {"raises", "notlist"}, items : {<<>>}]
        \cup [kind : {"list"},
              items : UNION {[1..n -> AnswerItems] : n \in 0..MaxAnswer}]

\* _validate_recommendations, lines 363-398
ValidateRecommendations(a) ==
    LET items == a.answer.items
        head == SubSeq(items, 1, IF Len(items) < a.recommendation_count
                                 THEN Len(items) ELSE a.recommendation_count)
        Kept(item) == item = "known"
        cleaned == [i \in 1..Len(SelectSeq(head, Kept)) |-> Recommendation(1)]
    IN [ok |-> a.answer.kind = "list" /\ Len(cleaned) >= a.recommendation_count,
        cleaned |-> cleaned]

\* _initialise_llm, lines 416-430
InitialiseLlm(a) == a.llm = "ready"

Advice(source, recommendations) ==
    [present |-> TRUE, source |-> source, recommendations |-> recommendations]

\* run, lines 283-314
AdvisorRun ==
    /\ agent # NoAgent
    /\ ~advice.present
    /\ LET v == ValidateRecommendations(agent)
       IN IF InitialiseLlm(agent) /\ v.ok
          THEN advice' = Advice("langchain", v.cleaned)
          ELSE \E recs \in FallbackRecommendations(agent) :
                 advice' = Advice("fallback", recs)
    /\ UNCHANGED <<agent, verify_vars, task_vars, match_vars, date_vars, twice_vars,
                   endpoint_vars, orch_vars, gateway_vars, ocr_result>>

NextAdvisor == AdvisorRun

\* An AdvisorAgent has been built (lines 258-264).
InitAdvisor ==
    /\ KycIdle
    /\ DatesIdle
    /\ TwiceIdle
    /\ EndpointIdle
    /\ OrchIdle
    /\ GatewayIdle
    /\ agent \in [recommendation_count : {RecommendationCount(arg) : arg \in 0..MaxCount},
                  cards : 1..MaxCards,
                  llm : {"disabled", "unavailable", "ready"},
                  answer : Answers]
    /\ advice = NoAdvice

SpecAdvisor == InitAdvisor /\ [][NextAdvisor]_vars

-----------------------------------------------------------------------------
(* src/gateway/api.py: the session table.  POST /onboard registers a       *)
(* session and queues _run_workflow_async, which Starlette runs in a       *)
(* worker thread; GET /status runs on the event loop.  _update_session     *)
(* holds _LOCK (lines 143-148), so each update is one step; nothing holds  *)
(* the lock from one step of a handler to its next.  The workflow is what  *)
(* the table sees of it: the audit events of its stages, one after the     *)
(* other, and then its return or its exception.                            *)

MaxPolls == 2

\* _update_session, lines 143-148
UpdateSession(s, updates) ==
    [table EXCEPT ![s] = [k \in DOMAIN table[s] |->
                            IF k \in DOMAIN updates THEN updates[k] ELSE table[s][k]]]

Stepped(s, upd) == [gw EXCEPT ![s] = upd]

\* Completed for the first n stages: _progress_from_results (lines 187-199)
\* of the results of n stages, _collect_progress_from_audit (lines 202-233)
\* of a log of n events.
CompletedUpTo(n) ==
    [k \in 1..Len(StageKeys) |-> IF k <= n THEN "completed" ELSE "pending"]

ProgressFromResults == CompletedUpTo(Len(StageKeys))

\* Lines 240-250 and 279
ProgressAt(v) ==
    [k \in 1..Len(StageKeys) |-> IF k = 1 THEN v ELSE "pending"]

\* start_onboarding, lines 287-298: _register_session, background task queued.
StartOnboarding(s) ==
    /\ table[s].status = "absent"
    /\ table' = [table EXCEPT ![s] = [status |-> "pending",
                                      progress |-> DEFAULT_PROGRESS]]
    /\ gw' = Stepped(s, [gw[s] EXCEPT !.run = "queued"])

\* _run_workflow_async, lines 239-250
WorkflowStart(s) ==
    /\ gw[s].run = "queued"
    /\ table' = UpdateSession(s, [status |-> "running",
                                  progress |-> ProgressAt("in_progress")])
    /\ gw' = Stepped(s, [gw[s] EXCEPT !.run = "running"])

\* run_workflow is at work: a stage writes its audit event
\* (src/orchestrator/orchestrator.py, lines 392-405).
RecordAuditEvent(s) ==
    /\ gw[s].run = "running"
    /\ gw[s].events < Len(StageKeys)
    /\ gw' = Stepped(s, [gw[s] EXCEPT !.events = @ + 1])
    /\ UNCHANGED table

\* Lines 256-272: run_workflow returned.
WorkflowCompleted(s) ==
    /\ gw[s].run = "running"
    /\ gw[s].events = Len(StageKeys)
    /\ table' = UpdateSession(s, [status |-> "completed",
                                  progress |-> ProgressFromResults])
    /\ gw' = Stepped(s, [gw[s] EXCEPT !.run = "ended"])

\* Lines 273-282: run_workflow raised.
WorkflowFailed(s) ==
    /\ gw[s].run = "running"
    /\ table' = UpdateSession(s, [status |-> "failed",
                                  progress |-> ProgressAt("error")])
    /\ gw' = Stepped(s, [gw[s] EXCEPT !.run = "ended"])

\* get_status, lines 304-309: the entry is read and its status tested.
GetStatus(s) ==
    /\ gw[s].poll = "idle"
    /\ gw[s].polls < MaxPolls
    /\ table[s].status # "absent"
    /\ gw' = Stepped(s, [gw[s] EXCEPT
                           !.polls = @ + 1,
                           !.poll = IF table[s].status = "running"
                                    THEN "collect" ELSE "idle"])
    /\ UNCHANGED table

\* Line 310: _collect_progress_from_audit reads the audit log.
CollectProgressFromAudit(s) ==
    /\ gw[s].poll = "collect"
    /\ gw' = Stepped(s, [gw[s] EXCEPT
                           !.poll = "update",
                           !.session_progress = CompletedUpTo(gw[s].events)])
    /\ UNCHANGED table

\* Line 311: _update_session(session_id, progress=session_progress)
StoreProgress(s) ==
    /\ gw[s].poll = "update"
    /\ table' = UpdateSession(s, [progress |-> gw[s].session_progress])
    /\ gw' = Stepped(s, [gw[s] EXCEPT !.poll = "idle"])

NextGateway ==
    /\ \E s \in Sessions :
         \/ StartOnboarding(s)
         \/ WorkflowStart(s)
         \/ RecordAuditEvent(s)
         \/ WorkflowCompleted(s)
         \/ WorkflowFailed(s)
         \/ GetStatus(s)
         \/ CollectProgressFromAudit(s)
         \/ StoreProgress(s)
    /\ UNCHANGED <<verify_vars, task_vars, match_vars, date_vars, twice_vars,
                   endpoint_vars, orch_vars, advisor_vars, ocr_result>>

\* The gateway has started: _SESSIONS is empty (line 78).
InitGateway ==
    /\ KycIdle
    /\ DatesIdle
    /\ TwiceIdle
    /\ EndpointIdle
    /\ OrchIdle
    /\ AdvisorIdle
    /\ GatewayIdle

SpecGateway == InitGateway /\ [][NextGateway]_vars

\* Both pipelines: a call of verify_driver_license, or a task of documents.
InitKyc == InitVerify \/ InitTask

NextKyc == NextVerify \/ NextTask

SpecKyc == InitKyc /\ [][NextKyc]_vars

-----------------------------------------------------------------------------
(* Properties of verify_driver_license and its LLM helpers (SpecVerify)    *)

CanonicalStatus == {PyStr("verified"), PyStr("manual_review"), PyStr("rejected")}

Returned == pc = "done"

\* A collaborator failed, or an unexpected exception was met, on the way to
\* the return.
AuthCallFailed == llm_log.auth.kind \in {"raise", "nondict"}

CmpCallFailed ==
    llm_log.cmp.kind \in {"raise", "nondict", "str_nojson", "str_badjson"}

SomethingFailed ==
    \/ ~result.match_details.present
    \/ AuthCallFailed
    \/ CmpCallFailed

\* C1: whatever the image, the OCR outcome and the answers of the LLM backend
\* (unreachable, malformed or wrongly typed ones included),
\* verify_driver_license returns its four-key dict and no exception leaves
\* it; a failed decoding, temporary file, OCR run, authenticity call or
\* comparison call, and any unexpected exception, show as verified = False
\* with at least one failure reason.
C1_AlwaysReturnsResult ==
    Returned =>
        /\ ~raised
        /\ result.verified \in BOOLEAN
        /\ result.failure_reasons \in Seq(STRING)
        /\ DOMAIN result =
             {"verified", "failure_reasons", "match_details", "ocr_extracted_text"}
        /\ SomethingFailed =>
             ~result.verified /\ result.failure_reasons # <<>>

\* C1 witness: a wrongly typed answer (flags is a number) made the analysis
\* raise TypeError, and the call still returned a non-verified result.
C1_Witness ==
    /\ Returned
    /\ llm_log.cmp.kind = "dict"
    /\ authenticity_result.flags = PyNum(3)
    /\ result.failure_reasons = <<"Verification error">>
    /\ ~result.verified

\* C3 (as stated): once the authenticity status is manual_review or
\* rejected, the returned result is never verified, whatever the confidence
\* and the field comparisons.
C3_PessimisticNeverVerified ==
    Returned /\ authenticity_result.status \in
                  {PyStr("manual_review"), PyStr("rejected")}
        => ~result.verified

\* C3 (amended): the result is never verified when the authenticity status is
\* rejected, nor when it is manual_review with a confidence below 0.5; no
\* field comparison overrides either.
C3_RejectedOrLowConfidenceNeverVerified ==
    Returned =>
        /\ authenticity_result.status = PyStr("rejected") => ~result.verified
        /\ (authenticity_result.status = PyStr("manual_review")
            /\ authenticity_result.confidence < 50) => ~result.verified

\* C3 witness: a rejected document whose three fields all match comes back
\* not verified.
C3_Witness ==
    /\ Returned
    /\ authenticity_result.status = PyStr("rejected")
    /\ result.match_details.present
    /\ \A f \in {result.match_details.name, result.match_details.address,
                 result.match_details.dob} : f.status = PyStr("match")
    /\ ~result.verified

AllLlmCallsUnreachable ==
    /\ llm_log.extract.kind = "raise"
    /\ llm_log.auth.kind = "raise"
    /\ llm_log.cmp.kind = "raise"

\* C6: when OCR gave text and the LLM backend was unreachable for the
\* extraction, authenticity and comparison calls, the returned result is not
\* verified, its authenticity status is manual_review (not rejected), and the
\* authenticity flags it carries include llm_evaluation_failed.
C6_LlmUnreachableIsManualReview ==
    Returned /\ AllLlmCallsUnreachable =>
        /\ ~result.verified
        /\ result.match_details.present
        /\ result.match_details.authenticity.status = PyStr("manual_review")
        /\ result.match_details.authenticity.flags.t = "list"
        /\ \E i \in DOMAIN result.match_details.authenticity.flags.l :
             result.match_details.authenticity.flags.l[i] = "llm_evaluation_failed"

\* C6 witness: such a call has returned.
C6_Witness ==
    /\ Returned
    /\ AllLlmCallsUnreachable
    /\ ocr_text # ""
    /\ result.ocr_extracted_text = ocr_text

Assessed == llm_log.auth.kind \notin {"none", "silent"}

\* An authenticity answer that does not follow the schema of the prompt.
MalformedAuthAnswer(ans) ==
    \/ ans.kind # "dict"
    \/ ans.status \notin CanonicalStatus
    \/ ~FloatOk(ans.confidence)
    \/ ans.flags.t # "list"

\* C7: on a transport error, a parse error or a malformed answer,
\* assess_document_authenticity_with_langchain returns exactly
\* manual_review, confidence 0.0 and flags holding llm_evaluation_failed.
C7_SentinelOnAnyBadAnswer ==
    Assessed /\ MalformedAuthAnswer(llm_log.auth) =>
        /\ authenticity_result.status = PyStr("manual_review")
        /\ authenticity_result.confidence = 0
        /\ authenticity_result.flags.t = "list"
        /\ \E i \in DOMAIN authenticity_result.flags.l :
             authenticity_result.flags.l[i] = "llm_evaluation_failed"

\* C8: every value assess_document_authenticity_with_langchain returns has a
\* status among verified, manual_review, rejected.
C8_StatusIsCanonical ==
    Assessed => authenticity_result.status \in CanonicalStatus

Compared == llm_log.cmp.kind \notin {"none", "silent"}

\* C9: compare_fields_with_langchain returns a value for every answer (no
\* exception leaves it), and on a transport error, a str answer whose JSON
\* cannot be recovered, or a non-dict answer, the name, address and dob
\* comparisons it returns all have status uncertain and confidence 0.0.
C9_CompareNeverRaises ==
    Compared =>
        /\ field_comparison_result # NoComparison
        /\ CmpCallFailed =>
             \A f \in {field_comparison_result.name_match,
                       field_comparison_result.address_match,
                       field_comparison_result.dob_match} :
                 f.status = PyStr("uncertain") /\ f.confidence = PyNum(0)

\* C9 witness: a str answer with braces that hold no JSON was answered by
\* the three uncertain comparisons.
C9_Witness ==
    /\ llm_log.cmp.kind = "str_badjson"
    /\ field_comparison_result = CompareSentinel
    /\ pc = "compared"

\* The answer was an object (given as a dict or recovered from a str).
CmpAnswerIsObject == llm_log.cmp.kind \in {"dict", "str_json"}

LacksKey(k) == CmpAnswerIsObject /\ llm_log.cmp[k].t = "absent"

DetailOf(k) ==
    CASE k = "name_match"    -> result.match_details.name
      [] k = "address_match" -> result.match_details.address
      [] k = "dob_match"     -> result.match_details.dob

\* C10: when the comparison answer is an object that lacks name_match,
\* address_match or dob_match, the comparison call returns (the missing
\* field as an empty dict), the returned result is not verified, and the
\* missing field is reported with status uncertain and confidence 0.0.
C10_MissingKeyIsUncertain ==
    \A k \in {"name_match", "address_match", "dob_match"} :
        LacksKey(k) =>
            /\ field_comparison_result[k] = FieldDict(Absent, Absent)
            /\ Returned =>
                 /\ ~result.verified
                 /\ result.failure_reasons # <<>>
                 /\ result.match_details.present =>
                      /\ DetailOf(k).status = PyStr("uncertain")
                      /\ DetailOf(k).confidence = PyNum(0)

\* C10 witness: the answer lacked only dob_match, the other two fields
\* matched and the authenticity was verified; the result is not verified.
C10_Witness ==
    /\ Returned
    /\ llm_log.cmp.kind = "dict"
    /\ llm_log.cmp.dob_match.t = "absent"
    /\ llm_log.cmp.name_match = FieldDict(PyStr("match"), PyNum(90))
    /\ llm_log.cmp.address_match = FieldDict(PyStr("match"), PyNum(90))
    /\ authenticity_result.status = PyStr("verified")
    /\ result.match_details.present
    /\ result.match_details.dob.status = PyStr("uncertain")
    /\ ~result.verified

-----------------------------------------------------------------------------
(* Properties of the Document Evaluator and the Task Aggregator (SpecTask)  *)

Severity(status) ==
    CASE status = Rejected     -> 2
      [] status = ManualReview -> 1
      [] status = Verified     -> 0

Aggregated == task_pc = "done"

\* C2: the status of the TaskVerdict is at least as severe as the status of
\* every DocumentVerdict it was folded from, under rejected > manual_review >
\* verified: a rejected document gives a rejected task and a manual_review
\* document a task that is not verified, at whatever position the document
\* stands.
C2_TaskAtLeastAsSevere ==
    Aggregated =>
        \A i \in DOMAIN per_document :
            per_document[i].status \in {Rejected, ManualReview, Verified} =>
                /\ task_verdict.status \in {Rejected, ManualReview, Verified}
                /\ Severity(task_verdict.status) >= Severity(per_document[i].status)

\* C2 witness: a rejected document followed by a verified one was folded
\* into a rejected task.
C2_Witness ==
    /\ Aggregated
    /\ Len(per_document) >= 2
    /\ per_document[1].status = Rejected
    /\ per_document[2].status = Verified
    /\ task_verdict.status = Rejected

\* C4: a task whose document list is empty has status manual_review.
C4_EmptyTaskIsManualReview ==
    Aggregated /\ task_docs = <<>> => task_verdict.status = ManualReview

\* C4 witness: a task without documents was aggregated.
C4_Witness ==
    /\ Aggregated
    /\ task_docs = <<>>
    /\ task_verdict.per_document = <<>>

\* The documents whose evaluation reached the fusion of step 5.
Fused(i) ==
    /\ task_log.docs[i].ocr = "text"
    /\ ~Has(per_document[i].flags, "processing_error")

\* C5 (as stated): a verified authenticity status with a match score below
\* the threshold gives the document status manual_review; with a match score
\* of at least the threshold the document status is the authenticity status.
C5_DowngradeOnlyAsStated ==
    \A i \in DOMAIN per_document :
        Fused(i) =>
            /\ (task_log.docs[i].auth.status = Verified
                /\ per_document[i].match_score < MATCH_SCORE_THRESHOLD)
                   => per_document[i].status = ManualReview
            /\ per_document[i].match_score >= MATCH_SCORE_THRESHOLD
                   => per_document[i].status = task_log.docs[i].auth.status

\* C5 (amended): a verified authenticity status with a match score below the
\* threshold gives manual_review; with a match score of at least the
\* threshold the document status is the authenticity status, except that the
\* flag llm_evaluation_failed turns any status but rejected into
\* manual_review.
C5_DowngradeOnly ==
    \A i \in DOMAIN per_document :
        Fused(i) =>
            /\ (task_log.docs[i].auth.status = Verified
                /\ per_document[i].match_score < MATCH_SCORE_THRESHOLD)
                   => per_document[i].status = ManualReview
            /\ per_document[i].match_score >= MATCH_SCORE_THRESHOLD
                   => per_document[i].status =
                        IF /\ Has(per_document[i].flags, "llm_evaluation_failed")
                           /\ task_log.docs[i].auth.status # Rejected
                        THEN ManualReview
                        ELSE task_log.docs[i].auth.status

\* C5 witness: a document the LLM called verified, with match score 0.6, has
\* the status manual_review and the flag low_match_score.
C5_Witness ==
    \E i \in DOMAIN per_document :
        /\ Fused(i)
        /\ task_log.docs[i].auth.status = Verified
        /\ per_document[i].match_score = 600
        /\ per_document[i].status = ManualReview
        /\ Has(per_document[i].flags, "low_match_score")

-----------------------------------------------------------------------------
(* Properties of extract_fields_from_ocr (SpecVerify)                      *)

Extracted == llm_log.extract.kind \notin {"none", "silent"}

ExtractCallFailed ==
    llm_log.extract.kind \in {"raise", "nondict", "str_nojson", "str_badjson"}

\* C11: extract_fields_from_ocr returns for every answer (no exception leaves
\* it: the caller goes on to its next statement); a str answer holding a JSON
\* object between its first "{" and its last "}" is read from that
\* substring; and when the backend call fails, the answer is no object, or
\* no JSON can be recovered from it, name, address and date_of_birth are all
\* the empty string.
C11_ExtractNeverRaises ==
    Extracted =>
        /\ llm_log.auth.kind = "none" => pc = "extracted"
        /\ ExtractCallFailed => extracted_fields = EmptyFields
        /\ (llm_log.extract.kind = "str_json" /\ llm_log.extract.name.t = "str")
              => extracted_fields.name = Strip(llm_log.extract.name.s)

\* C11 witness: a str answer whose braces hold no JSON was answered by the
\* three empty strings, and the caller went on.
C11_Witness ==
    /\ llm_log.extract.kind = "str_badjson"
    /\ extracted_fields = EmptyFields
    /\ pc = "extracted"

FieldComparisonStatus ==
    {PyStr("match"), PyStr("mismatch"), PyStr("not_found"), PyStr("uncertain")}

\* C12: every field comparison the returned result reports (name, address,
\* dob) has a status among match, mismatch, not_found, uncertain, whatever
\* the LLM backend answered.
C12_FieldStatusIsCanonical ==
    Returned /\ result.match_details.present =>
        \A f \in {result.match_details.name, result.match_details.address,
                  result.match_details.dob} : f.status \in FieldComparisonStatus

-----------------------------------------------------------------------------
(* Order, timeouts and cancellation of the calls of verify_driver_license  *)
(* (SpecVerify)                                                            *)

ExtractionStarted == llm_log.extract.kind # "none"

AuthenticityStarted == llm_log.auth.kind # "none"

ComparisonStarted == llm_log.cmp.kind # "none"

\* C16: no LLM call is started before OCR has returned a non-empty text; the
\* comparison call is started only after the extraction call has returned,
\* and it is given the fields that call returned; the authenticity call is
\* given the OCR text, whatever the extraction returned.
C16_CallOrder ==
    /\ (ExtractionStarted \/ AuthenticityStarted \/ ComparisonStarted)
          => ocr_text # ""
    /\ ExtractionStarted => llm_log.given.extract = ocr_text
    /\ AuthenticityStarted => llm_log.given.auth = ocr_text
    /\ ComparisonStarted =>
          /\ Extracted
          /\ llm_log.given.cmp = extracted_fields
          /\ ExtractCallFailed => llm_log.given.cmp = EmptyFields
          /\ (llm_log.extract.kind = "dict" /\ llm_log.extract.name = PyStr(" JANE SAMPLE ")
              /\ llm_log.extract.date_of_birth.t = "str")
                => llm_log.given.cmp.name = "JANE SAMPLE"

\* C16 witness: the comparison call was started with the name the extraction
\* call had returned, after an authenticity call on the OCR text.
C16_Witness ==
    /\ ComparisonStarted
    /\ llm_log.extract.kind = "dict"
    /\ llm_log.given.cmp.name = "JANE SAMPLE"
    /\ llm_log.given.auth = "JANE SAMPLE 1988-08-15"
    /\ ocr_text = "JANE SAMPLE 1988-08-15"

\* C17: a call the backend never answers does not stop the verification: the
\* call ends as a backend error does, with the sentinel of that call.
C17_SilentBackendGivesSentinel ==
    /\ pc # "hung"
    /\ llm_log.extract.kind = "silent" => extracted_fields = EmptyFields
    /\ llm_log.auth.kind = "silent" => authenticity_result = AuthenticitySentinel
    /\ llm_log.cmp.kind = "silent" => field_comparison_result = CompareSentinel

\* The positions from which the next step is an OCR or LLM call.
CallSites == {"saved", "ocr_done", "extracted", "assessed"}

\* C18: once the task is cancelled (its caller has gone), no OCR or LLM call
\* of the task is started any more.
C18_NoCallAfterCancel ==
    [][cancelled /\ pc \in CallSites => pc' = pc]_vars

-----------------------------------------------------------------------------
(* Short-circuit on unreadable documents (SpecKyc), containment, order and *)
(* flags of the task pipeline (SpecTask)                                   *)

UnreadableOutcomes == {"not_found", "error", "empty"}

UnexpectedException(i) ==
    /\ task_log.docs[i].ocr = "text"
    /\ task_log.docs[i].auth.flags.t # "list"

\* C14: an unexpected exception in the evaluation of one document gives that
\* document the verdict manual_review with the flag processing_error; the
\* task is never ended by it, and the TaskVerdict holds a verdict for every
\* document of the request.
C14_DocumentFailureContained ==
    /\ task_pc # "aborted"
    /\ \A i \in DOMAIN task_docs :
          (Evaluated(i) /\ UnexpectedException(i)) =>
             /\ per_document[i].status = ManualReview
             /\ per_document[i].flags = <<"processing_error">>
    /\ Aggregated =>
          /\ Len(task_verdict.per_document) = Len(task_docs)
          /\ \A i \in DOMAIN task_docs :
                /\ task_verdict.per_document[i] # PendingVerdict
                /\ task_verdict.per_document[i].document_type = task_docs[i].type

\* C14 witness: the first document failed with an exception, the second was
\* evaluated to verified, and the task was aggregated.
C14_Witness ==
    /\ Aggregated
    /\ Len(task_docs) >= 2
    /\ UnexpectedException(1)
    /\ task_verdict.per_document[1].flags = <<"processing_error">>
    /\ task_verdict.per_document[2].status = Verified

\* C15: in whatever order the documents of a task end, the verdict at
\* position i of per_document is the verdict of the i-th document of the
\* request, and the TaskVerdict lists the verdicts in that order.
C15_VerdictsInRequestOrder ==
    /\ \A i \in DOMAIN task_docs :
          IF Evaluated(i)
          THEN /\ per_document[i].document_type = task_docs[i].type
               /\ task_log.docs[i].ocr = "not_found"
                     <=> per_document[i].flags = <<"document_missing">>
               /\ task_log.docs[i].ocr \in {"error", "empty"}
                     <=> per_document[i].flags = <<"ocr_failed">>
          ELSE per_document[i] = PendingVerdict
    /\ Aggregated =>
          /\ Len(task_verdict.per_document) = Len(task_docs)
          /\ \A i \in DOMAIN task_docs :
                task_verdict.per_document[i].document_type = task_docs[i].type

\* C15 witness: the second document ended before the first, and each verdict
\* of the TaskVerdict stands at the position of its document.
C15_Witness ==
    /\ Aggregated
    /\ task_log.out_of_order
    /\ Len(task_docs) >= 2
    /\ task_log.docs[1].ocr = "text"
    /\ task_log.docs[2].ocr = "not_found"
    /\ task_verdict.per_document[1].document_type = "driver_license"
    /\ task_verdict.per_document[2].document_type = "passport"
    /\ task_verdict.per_document[2].flags = <<"document_missing">>

NoDuplicates(q) == \A i, j \in DOMAIN q : q[i] = q[j] => i = j

FirstAt(q, x) == CHOOSE i \in DOMAIN q : q[i] = x /\ \A j \in 1..(i - 1) : q[j] # x

\* r is q without its later repetitions, in the order of first appearance.
IsFirstSeen(r, q) ==
    /\ NoDuplicates(r)
    /\ {r[i] : i \in DOMAIN r} = {q[i] : i \in DOMAIN q}
    /\ \A i, j \in DOMAIN r : i < j => FirstAt(q, r[i]) < FirstAt(q, r[j])

\* The flags of step 4 before deduplication, read off the verdict and the
\* authenticity flags.
RawFlags(i) ==
    task_log.docs[i].auth.flags.l
    \o (IF per_document[i].match_score < MATCH_SCORE_THRESHOLD
        THEN <<"low_match_score">> ELSE <<>>)
    \o (IF per_document[i].metadata.name_score = 0 THEN <<"name_not_found">> ELSE <<>>)
    \o (IF per_document[i].metadata.dob_score = 0 /\ task_log.dob_claimed
        THEN <<"dob_not_found">> ELSE <<>>)

\* C19: the flags of every DocumentVerdict and of the TaskVerdict hold no
\* flag twice and keep the order of first appearance; the flags of the
\* TaskVerdict are the flags of the documents, in document order, without
\* their later repetitions.
C19_FlagsFirstSeenNoDuplicates ==
    /\ \A i \in DOMAIN task_docs :
          /\ NoDuplicates(per_document[i].flags)
          /\ (Evaluated(i) /\ Fused(i)) => IsFirstSeen(per_document[i].flags, RawFlags(i))
    /\ Aggregated =>
          IsFirstSeen(task_verdict.flags, AllFlags(task_verdict.per_document))

\* C19 witness: the LLM gave name_not_found twice and the matcher found no
\* name; the document has the flag once, in front, and the second document
\* repeats flags of the first; the TaskVerdict has each flag once.
C19_Witness ==
    /\ Aggregated
    /\ Len(task_docs) >= 2
    /\ task_log.docs[1].auth.flags = PyList(<<"name_not_found", "name_not_found">>)
    /\ per_document[1].flags = <<"name_not_found", "low_match_score", "dob_not_found">>
    /\ per_document[2].flags = <<"llm_evaluation_failed", "low_match_score",
                                 "name_not_found", "dob_not_found">>
    /\ task_verdict.flags = <<"name_not_found", "low_match_score", "dob_not_found",
                              "llm_evaluation_failed">>

-----------------------------------------------------------------------------
(* Properties of evaluate_user_data (SpecMatch)                            *)

\* C20: for all OCR lines and claims, the match_score evaluate_user_data
\* returns lies in [0,1] and is the mean of those of name_score and
\* dob_score that are greater than 0: 0.0 when both are 0, the positive one
\* when exactly one is positive, half their sum when both are.
C20_MatchScoreIsMeanOfPresent ==
    comparison_result.present =>
        LET n == comparison_result.name_score
            d == comparison_result.dob_score
            m == comparison_result.match_score
        IN /\ m \in 0..1000
           /\ n \in 0..1000
           /\ d \in 0..1000
           /\ (n = 0 /\ d = 0) => m = 0
           /\ (n > 0 /\ d = 0) => m = n
           /\ (n = 0 /\ d > 0) => m = d
           /\ (n > 0 /\ d > 0) => 2 * m = n + d

\* C20 witness: two lines carry the name (0.6 and 1.0) and none a date; the
\* match score is the name score 1.0, not its half.
C20_Witness ==
    /\ comparison_result.present
    /\ Len(match_args.ocr_lines) = 2
    /\ match_args.dob_given
    /\ comparison_result.name_score = 1000
    /\ comparison_result.dob_score = 0
    /\ comparison_result.match_score = 1000

-----------------------------------------------------------------------------
(* Properties of _score_dates (SpecDates)                                  *)

\* The call has returned.
Scored == date_score # NotScored

HasDigits(value) == DigitsOnly(value) # <<>>

\* C21: _score_dates returns 0.0 whenever one of the two strings holds no
\* digit, and for two strings that hold digits it returns 1.0 if and only if
\* their digit-only forms are identical.
C21_OneIffDigitsIdentical ==
    Scored =>
        LET a == date_args.ocr_value
            b == date_args.expected
        IN /\ (~HasDigits(a) \/ ~HasDigits(b)) => date_score = 0
           /\ (HasDigits(a) /\ HasDigits(b)) =>
                  (date_score = 1000 <=> DigitsOnly(a) = DigitsOnly(b))

-----------------------------------------------------------------------------
(* Two calls of verify_driver_license (SpecTwice)                          *)

\* The second call has ended, and OCR and the backend gave it all they gave
\* the first.
SecondCallEnded ==
    /\ call_no = 2
    /\ pc = "done"
    /\ ocr_result = first.ocr_result
    /\ [llm_log EXCEPT !.given = first.llm_log.given] = first.llm_log

-----------------------------------------------------------------------------
(* POST /kyc/verify (SpecEndpoint)                                         *)

\* verify_driver_license has been called for the request.
ServiceInvoked == pc # "idle"

\* C23: every answer of POST /kyc/verify is a response body; a body that is
\* not verified (a blank field, an exception of the service, a failed
\* check) carries at least one failure reason; and for a request with a
\* blank name, address, date of birth or image verify_driver_license is
\* never called.
C23_EndpointAnswersWithReasons ==
    /\ endpoint_pc = "answered" =>
          /\ kyc_response.present
          /\ kyc_response.verified \in BOOLEAN
          /\ ~kyc_response.verified => kyc_response.failure_reasons # <<>>
    /\ (\/ payload.name \in {"", " "}
        \/ payload.address \in {"", " "}
        \/ payload.date_of_birth \in {"", " "}
        \/ payload.driver_license_image.form \in {"empty", "blank"})
          => /\ ~ServiceInvoked
             /\ endpoint_pc = "answered" =>
                   ~kyc_response.verified /\ Len(kyc_response.failure_reasons) = 1

\* C23 witness: a request with a name of white space only is answered
\* without a call of the service.
C23_Witness ==
    /\ endpoint_pc = "answered"
    /\ payload.name = " "
    /\ payload.address = "x"
    /\ kyc_response.failure_reasons = <<"Name is required">>
    /\ ~ServiceInvoked

\* A request with no blank field whose checks fail is answered with the
\* reasons of the service.
C23_WitnessFailedChecks ==
    /\ endpoint_pc = "answered"
    /\ ServiceInvoked
    /\ result.match_details.present
    /\ ~kyc_response.verified
    /\ Len(kyc_response.failure_reasons) >= 2

-----------------------------------------------------------------------------
(* The orchestrator workflow (SpecWorkflow, SpecSessions)                  *)

StageRank(name) ==
    CASE name = "Conversation" -> 1
      [] name = "KYC" -> 2
      [] name = "Advisor" -> 3
      [] name = "Audit" -> 4

\* C24: in a run of the workflow the stages execute in the order
\* Conversation, KYC, Advisor, Audit, each once; when a stage starts the
\* result of the stage before it is stored: KYC is given the conversation
\* result of the run and Advisor its KYC result.
C24_StagesInOrderWithResults ==
    /\ \A s \in Sessions :
          \A i \in 1..Len(wf[s].trace) : StageRank(wf[s].trace[i]) = i
    /\ session_state.kyc_result.stage = "KYC" =>
          session_state.kyc_result.saw = session_state.session_id
    /\ session_state.advisor_result.stage = "Advisor" =>
          session_state.advisor_result.saw = session_state.session_id

\* C26: the results recorded for a session carry its own session_id, its
\* own user profile and the conversation, KYC and advisor results made of
\* its own data, whatever other workflow runs meanwhile.
C26_ResultsOfOwnSession ==
    \A s \in Sessions :
        wf[s].results.present =>
            /\ wf[s].results.session_id = s
            /\ wf[s].results.user_profile = s
            /\ \A r \in {wf[s].results.conversation_result,
                          wf[s].results.kyc_result,
                          wf[s].results.advisor_result} :
                   OfResult(r) \in {s, "none"}

\* C25: whenever the LLM is disabled or unavailable, or its answer fails
\* validation, AdvisorAgent.run returns source "fallback" with exactly
\* recommendation_count recommendations, each with the six keys.
C25_FallbackGivesCount ==
    (advice.present /\ ~(InitialiseLlm(agent) /\ ValidateRecommendations(agent).ok)) =>
        /\ advice.source = "fallback"
        /\ Len(advice.recommendations) = agent.recommendation_count
        /\ \A i \in 1..Len(advice.recommendations) :
             RequiredKeys \subseteq advice.recommendations[i].keys

StatusMoves ==
    {<<"absent", "pending">>, <<"pending", "running">>, <<"running", "completed">>,
     <<"running", "failed">>}

\* C27: a session's status only moves pending -> running -> completed or
\* failed and never leaves completed or failed; once a session is completed
\* its progress is the one computed from the workflow results, and no poll
\* of GET /status overwrites it.
C27_StatusForwardProgressKept ==
    [][\A s \in Sessions :
         /\ \/ table'[s].status = table[s].status
            \/ <<table[s].status, table'[s].status>> \in StatusMoves
         /\ table'[s].status = "completed" => table'[s].progress = ProgressFromResults
      ]_vars

\* C28: on every return path of verify_driver_license verified is true
\* exactly when failure_reasons is empty; the reasons of the authenticity
\* flags are dropped from a verified result.
C28_VerifiedIffNoReasons ==
    (pc = "done" /\ ~raised) =>
        (result.verified <=> result.failure_reasons = <<>>)

\* A verified result whose authenticity assessment carried a flag.
C28_Witness ==
    /\ pc = "done"
    /\ ~raised
    /\ result.verified
    /\ result.failure_reasons = <<>>
    /\ authenticity_result.flags = PyList(<<"blurry_text">>)

\* A field of the comparison, as match_details reports it, fails.
ReportedFieldFails(f) ==
    \/ f.status = PyStr("mismatch")
    \/ f.status = PyStr("not_found")
    \/ /\ f.status = PyStr("uncertain")
       /\ f.confidence.t = "num"
       /\ f.confidence.n < FieldConfidenceMin

\* C29: when OCR and the three LLM calls gave results that could be
\* analysed, verified is true exactly when the authenticity status is not
\* rejected, is not manual_review with confidence below 0.5, and none of
\* name, address and dob is mismatch, not_found, or uncertain with
\* confidence below 0.6; the flags have no part in it.
C29_VerifiedIffChecksPass ==
    (pc = "done" /\ ~raised /\ result.match_details.present) =>
        LET d == result.match_details
        IN result.verified <=>
             /\ d.authenticity.status # PyStr("rejected")
             /\ ~(/\ d.authenticity.status = PyStr("manual_review")
                  /\ d.authenticity.confidence < AuthConfidenceMin)
             /\ ~ReportedFieldFails(d.name)
             /\ ~ReportedFieldFails(d.address)
             /\ ~ReportedFieldFails(d.dob)

\* Not verified for one reason only: the address was not found.
C29_Witness ==
    /\ pc = "done"
    /\ ~raised
    /\ result.match_details.present
    /\ ~result.verified
    /\ result.failure_reasons = <<"Address not found in document">>
    /\ result.match_details.authenticity.status = PyStr("manual_review")
    /\ result.match_details.authenticity.confidence >= AuthConfidenceMin

\* C30: no temporary file outlives the call: on every exit path after the
\* file was created it has been deleted when the function returns, and no
\* file is created when base64 decoding fails.
C30_NoTempFileOutlivesCall ==
    pc = "done" =>
        /\ temp_file # "exists"
        /\ result.failure_reasons = <<"Invalid base64 image encoding">> =>
             temp_file = "none"


====
